---- MODULE Spec2Model ----
(***************************************************************************)
(* Verification model of pacai (cajowils/pacman-tourney):                  *)
(*   - the copy-on-write game state of pacai/core/state.py                 *)
(*   - the generic search engine of pacai/student/search.py                *)
(*   - the adversarial tree search of pacai/student/multiagents.py         *)
(*   - the corners and food heuristics and the closest-dot agent of        *)
(*     pacai/student/searchAgents.py                                       *)
(*   - value iteration, Q-learning and approximate Q-learning of           *)
(*     pacai/student/valueIterationAgent.py and qlearningAgents.py         *)
(* Python objects that can be aliased (food grids, capsule lists, agent    *)
(* state lists) live on explicit heaps and are named by references.        *)
(***************************************************************************)
EXTENDS Integers, Sequences, FiniteSets, TLC

None == "None"
TypeError == "TypeError"

Max2(a, b) == IF a >= b THEN a ELSE b
Min2(a, b) == IF a <= b THEN a ELSE b
Abs(k) == IF k < 0 THEN 0 - k ELSE k

(***************************************************************************)
(* Part I.  AbstractGameState (pacai/core/state.py)                        *)
(***************************************************************************)

\* Bounds of the game-state model.
NumCells == 2
MaxStates == 3
MaxOps == 5
MaxScore == 1
MaxGrids == 5

Cells == 1..NumCells

\* The layout the game is built from: food on every cell, capsules in list order.
LayoutId == 1
LayoutFood == [c \in Cells |-> TRUE]
LayoutCapsules == [i \in 1..NumCells |-> i]
LayoutAgentPositions == <<1, 2>>

\* The value of _lastFoodEaten and _lastCapsuleEaten while nothing was eaten (None).
NoCell == 0

VARIABLES
    states,      \* the GameState objects created so far, in creation order
    foods,       \* heap of Grid objects: reference -> [cell -> BOOLEAN]
    caps,        \* heap of capsule lists: reference -> sequence of cells
    agents,      \* heap of agent-state lists: reference -> sequence of positions
    parent,      \* parent[s]: the state s was created from by _initSuccessor (0: the root)
    lastOp,      \* the last operation applied, with the presence test it started with
    nops         \* number of operations applied so far

gsVars == <<states, foods, caps, agents, parent, lastOp, nops>>

\* genericSearch (Part II)
VARIABLES
    graph,       \* the problem: step cost of every candidate edge (0: no such edge)
    startIsGoal, \* the problem: whether isGoal also accepts the starting state
    mode,        \* which search function was called: "dfs", "bfs", "ucs" or "astar"
    heur,        \* the heuristic passed to aStarSearch: node -> estimate
    search       \* locals of genericSearch: frontier, path, visited, popped entry, result

searchVars == <<graph, startIsGoal, mode, heur, search>>

\* Adversarial tree search (Part III)
VARIABLES
    game,        \* the game tree: number of agents, tree depth, branching, evaluation
    mmResult,    \* what MinimaxAgent.getAction returned (None before the call)
    abResult,    \* what AlphaBetaAgent.getAction returned (None before the call)
    exResult     \* what ExpectimaxAgent.getAction returned (None before the call)

treeVars == <<game, mmResult, abResult, exResult>>

\* CornersProblem and the food search problem on a grid (Part IV)
VARIABLES
    walls,       \* the wall cells inside the border of the layout
    cstate,      \* a CornersProblem state: coordinates and the four corner flags
    fstate,      \* a food search state: position and the cells that hold food
    fprev,       \* the food search state before the last step (fstate before any step)
    hCorners,    \* cornersHeuristic at cstate
    hFood,       \* foodHeuristic at fstate
    cds          \* ClosestDotSearchAgent.registerInitialState: the initial state,
                 \* currentState, self._actions and the iterations of the loop

gridVars == <<walls, cstate, fstate, fprev, hCorners, hFood, cds>>

\* ValueIterationAgent and QLearningAgent (Part V)
VARIABLES
    mdp,         \* the Markov decision process: transitions, rewards, discount
    agentKind,   \* which agent is built on it: "vi" or "ql"
    vi,          \* ValueIterationAgent: self.values, temp and the position in __init__
    ql,          \* QLearningAgent: self.qValues and the updates seen
    aq           \* ApproximateQAgent: the feature extractor, self.weights (now and
                 \* before the last update), the updates seen

mdpVars == <<mdp, agentKind, vi, ql, aq>>

vars == <<gsVars, searchVars, treeVars, gridVars, mdpVars>>

\* The object graph as one value, so that operations are functions on it.
World == [states |-> states, foods |-> foods, caps |-> caps, agents |-> agents]

\* list.remove(x): drops the first occurrence of x.
RECURSIVE ListRemove(_, _)
ListRemove(l, x) ==
    IF l = <<>> THEN <<>>
    ELSE IF Head(l) = x THEN Tail(l)
    ELSE <<Head(l)>> \o ListRemove(Tail(l), x)

ListContains(l, x) == \E i \in 1..Len(l) : l[i] = x

HasCapsule(W, s, c) == ListContains(W.caps[W.states[s].capsules], c)

HasFood(W, s, c) == W.foods[W.states[s].food][c]

\* What the accessors report, by value.
GetCapsules(W, s) == W.caps[W.states[s].capsules]
GetFood(W, s) == W.foods[W.states[s].food]
GetAgentStates(W, s) == W.agents[W.states[s].agentStates]
GetNumFood(W, s) == Cardinality({c \in Cells : HasFood(W, s, c)})
GetNumCapsules(W, s) == Len(GetCapsules(W, s))

\* AbstractGameState.__init__: private copies of layout.food and layout.capsules.
InitWorld ==
    [states |-> << [lastAgentMoved |-> None, gameover |-> FALSE, win |-> FALSE,
                    layout |-> LayoutId,
                    foodCopied |-> FALSE, food |-> 2, lastFoodEaten |-> NoCell,
                    capsulesCopied |-> FALSE, capsules |-> 2, lastCapsuleEaten |-> NoCell,
                    capsuleCopied |-> None,
                    agentStates |-> 1, score |-> 0] >>,
     foods |-> <<LayoutFood, LayoutFood>>,
     caps |-> <<LayoutCapsules, LayoutCapsules>>,
     agents |-> <<LayoutAgentPositions>>]

AddScore(W, s, d) == [W EXCEPT !.states[s].score = @ + d]

EndGame(W, s, w) == [W EXCEPT !.states[s].gameover = TRUE, !.states[s].win = w]

EatCapsule(W, s, c) ==
    LET st == W.states[s]
        W1 == IF ~st.capsulesCopied
              THEN [W EXCEPT !.caps = Append(@, W.caps[st.capsules]),
                             !.states[s].capsules = Len(W.caps) + 1,
                             !.states[s].capsulesCopied = TRUE]
              ELSE W
    IN IF ~HasCapsule(W, s, c) THEN W
       ELSE [W1 EXCEPT !.caps[W1.states[s].capsules] = ListRemove(@, c),
                       !.states[s].lastCapsuleEaten = c]

EatFoodNoClone(W, s, c) ==
    IF ~HasFood(W, s, c) THEN W
    ELSE [W EXCEPT !.foods[W.states[s].food][c] = FALSE,
                   !.states[s].foodCopied = TRUE,
                   !.states[s].lastFoodEaten = c]

EatFoodNoGuard(W, s, c) ==
    LET st == W.states[s]
        W1 == IF ~st.foodCopied
              THEN [W EXCEPT !.foods = Append(@, W.foods[st.food]),
                             !.states[s].food = Len(W.foods) + 1,
                             !.states[s].foodCopied = TRUE]
              ELSE W
    IN [W1 EXCEPT !.foods[W1.states[s].food][c] = FALSE,
                  !.states[s].lastFoodEaten = c]

EatFood(W, s, c) ==
    LET st == W.states[s]
        W1 == IF ~st.foodCopied
              THEN [W EXCEPT !.foods = Append(@, W.foods[st.food]),
                             !.states[s].food = Len(W.foods) + 1,
                             !.states[s].foodCopied = TRUE]
              ELSE W
    IN IF ~HasFood(W, s, c) THEN W
       ELSE [W1 EXCEPT !.foods[W1.states[s].food][c] = FALSE,
                       !.states[s].lastFoodEaten = c]

\* getAgentState(index) hands out the AgentState object itself; a change made
\* through it (a new position) is a write into the list of the state that owns it.
SetAgentPosition(W, s, i, p) == [W EXCEPT !.agents[W.states[s].agentStates][i] = p]

InitSuccessorSharedAgents(W, s) ==
    LET st == W.states[s]
        succ == [st EXCEPT !.foodCopied = FALSE,
                           !.capsuleCopied = FALSE]
    IN [W EXCEPT !.states = Append(@, succ)]

\* copy.copy(self), then _foodCopied and the attribute _capsuleCopied are reset
\* and the agent states are copied into a new list.
InitSuccessor(W, s) ==
    LET st == W.states[s]
        succ == [st EXCEPT !.foodCopied = FALSE,
                           !.capsuleCopied = FALSE,
                           !.agentStates = Len(W.agents) + 1]
    IN [W EXCEPT !.states = Append(@, succ),
                 !.agents = Append(@, W.agents[st.agentStates])]

StateEqWithHistory(W, a, b) ==
    IF a = b THEN TRUE
    ELSE IF \/ W.states[a].score # W.states[b].score
            \/ W.states[a].gameover # W.states[b].gameover
            \/ W.states[a].win # W.states[b].win
         THEN FALSE
         ELSE /\ W.caps[W.states[a].capsules] = W.caps[W.states[b].capsules]
              /\ W.foods[W.states[a].food] = W.foods[W.states[b].food]
              /\ W.agents[W.states[a].agentStates] = W.agents[W.states[b].agentStates]
              /\ W.states[a].layout = W.states[b].layout
              /\ W.states[a].lastFoodEaten = W.states[b].lastFoodEaten
              /\ W.states[a].lastCapsuleEaten = W.states[b].lastCapsuleEaten

\* __eq__: score and flags first, then capsules, food, agent states and layout by value.
StateEq(W, a, b) ==
    IF a = b THEN TRUE
    ELSE IF \/ W.states[a].score # W.states[b].score
            \/ W.states[a].gameover # W.states[b].gameover
            \/ W.states[a].win # W.states[b].win
         THEN FALSE
         ELSE /\ W.caps[W.states[a].capsules] = W.caps[W.states[b].capsules]
              /\ W.foods[W.states[a].food] = W.foods[W.states[b].food]
              /\ W.agents[W.states[a].agentStates] = W.agents[W.states[b].agentStates]
              /\ W.states[a].layout = W.states[b].layout

INITIAL_HASH_VALUE == 17
HASH_MULTIPLIER == 37

\* hash() of a bool is 0 or 1; hash() of a list raises TypeError (lists are unhashable).
HashBool(b) == IF b THEN 1 ELSE 0
HashList(l) == TypeError

\* __hash__: the running hashCode, or TypeError as soon as a hash() call raises.
StateHash(W, s) ==
    LET st == W.states[s]
        h1 == INITIAL_HASH_VALUE * HASH_MULTIPLIER + st.score
        h2 == h1 * HASH_MULTIPLIER + HashBool(st.gameover)
        h3 == h2 * HASH_MULTIPLIER + HashBool(st.win)
        hc == HashList(W.caps[st.capsules])
    IN IF hc = TypeError THEN TypeError
       ELSE LET ha == HashList(W.agents[st.agentStates])
            IN IF ha = TypeError THEN TypeError ELSE h3 * HASH_MULTIPLIER + hc

SetWorld(W) ==
    /\ states' = W.states
    /\ foods' = W.foods
    /\ caps' = W.caps
    /\ agents' = W.agents

StateIds == 1..Len(states)

DoInitSuccessor ==
    \E s \in StateIds :
        /\ nops < MaxOps
        /\ Len(states) < MaxStates
        /\ SetWorld(InitSuccessor(World, s))
        /\ parent' = Append(parent, s)
        /\ lastOp' = [op |-> "initSuccessor", target |-> Len(states) + 1, cell |-> 0,
                      present |-> FALSE]
        /\ nops' = nops + 1
        /\ UNCHANGED <<searchVars, treeVars, gridVars, mdpVars>>

DoEatFood ==
    \E s \in StateIds, c \in Cells :
        /\ nops < MaxOps
        /\ SetWorld(EatFood(World, s, c))
        /\ lastOp' = [op |-> "eatFood", target |-> s, cell |-> c,
                      present |-> HasFood(World, s, c)]
        /\ nops' = nops + 1
        /\ UNCHANGED parent
        /\ UNCHANGED <<searchVars, treeVars, gridVars, mdpVars>>

DoEatCapsule ==
    \E s \in StateIds, c \in Cells :
        /\ nops < MaxOps
        /\ SetWorld(EatCapsule(World, s, c))
        /\ lastOp' = [op |-> "eatCapsule", target |-> s, cell |-> c,
                      present |-> HasCapsule(World, s, c)]
        /\ nops' = nops + 1
        /\ UNCHANGED parent
        /\ UNCHANGED <<searchVars, treeVars, gridVars, mdpVars>>

DoAddScore ==
    \E s \in StateIds :
        /\ nops < MaxOps
        /\ states[s].score < MaxScore
        /\ SetWorld(AddScore(World, s, 1))
        /\ lastOp' = [op |-> "addScore", target |-> s, cell |-> 0, present |-> FALSE]
        /\ nops' = nops + 1
        /\ UNCHANGED parent
        /\ UNCHANGED <<searchVars, treeVars, gridVars, mdpVars>>

DoEndGame ==
    \E s \in StateIds, w \in BOOLEAN :
        /\ nops < MaxOps
        /\ SetWorld(EndGame(World, s, w))
        /\ lastOp' = [op |-> "endGame", target |-> s, cell |-> 0, present |-> FALSE]
        /\ nops' = nops + 1
        /\ UNCHANGED parent
        /\ UNCHANGED <<searchVars, treeVars, gridVars, mdpVars>>

DoSetAgentPosition ==
    \E s \in StateIds, i \in 1..Len(LayoutAgentPositions), p \in Cells :
        /\ nops < MaxOps
        /\ SetWorld(SetAgentPosition(World, s, i, p))
        /\ lastOp' = [op |-> "setAgentPosition", target |-> s, cell |-> p,
                      present |-> FALSE]
        /\ nops' = nops + 1
        /\ UNCHANGED parent
        /\ UNCHANGED <<searchVars, treeVars, gridVars, mdpVars>>

\* getCapsules(): return self._capsules, the list object the state itself holds.
GetCapsulesRef(W, s) == [world |-> W, ref |-> W.states[s].capsules]

\* getFood(): return self._food.copy(), a grid object no state holds.
GetFoodRef(W, s) ==
    [world |-> [W EXCEPT !.foods = Append(@, W.foods[W.states[s].food])],
     ref |-> Len(W.foods) + 1]

\* A caller takes the list getCapsules() returned and calls remove(c), when c
\* is in it, or append(c) on it.
DoCallerChangesCapsules ==
    \E s \in StateIds, c \in Cells :
        LET got == GetCapsulesRef(World, s)
            list == got.world.caps[got.ref]
        IN /\ nops < MaxOps
           /\ Len(list) <= NumCells
           /\ SetWorld([got.world EXCEPT !.caps[got.ref] =
                           IF ListContains(list, c) THEN ListRemove(list, c)
                           ELSE Append(list, c)])
           /\ lastOp' = [op |-> "callerChangesCapsules", target |-> s, cell |-> c,
                         present |-> ListContains(list, c)]
           /\ nops' = nops + 1
           /\ UNCHANGED parent
           /\ UNCHANGED <<searchVars, treeVars, gridVars, mdpVars>>

\* A caller takes the grid getFood() returned and writes the other value into
\* one of its cells.
DoCallerChangesFood ==
    \E s \in StateIds, c \in Cells :
        LET got == GetFoodRef(World, s)
            grid == got.world.foods[got.ref]
        IN /\ nops < MaxOps
           /\ Len(foods) < MaxGrids
           /\ SetWorld([got.world EXCEPT !.foods[got.ref][c] = ~grid[c]])
           /\ lastOp' = [op |-> "callerChangesFood", target |-> s, cell |-> c,
                         present |-> grid[c]]
           /\ nops' = nops + 1
           /\ UNCHANGED parent
           /\ UNCHANGED <<searchVars, treeVars, gridVars, mdpVars>>

\* The operations of the game and the callers of the two accessors.
AccessNext ==
    \/ DoInitSuccessor
    \/ DoEatFood
    \/ DoEatCapsule
    \/ DoAddScore
    \/ DoEndGame
    \/ DoSetAgentPosition
    \/ DoCallerChangesCapsules
    \/ DoCallerChangesFood

GsNext ==
    \/ DoInitSuccessor
    \/ DoEatFood
    \/ DoEatCapsule
    \/ DoAddScore
    \/ DoEndGame
    \/ DoSetAgentPosition

WorldNext == [states |-> states', foods |-> foods', caps |-> caps', agents |-> agents']

\* a is s's parent, or its parent's parent, and so on.
RECURSIVE IsAncestor(_, _)
IsAncestor(a, s) ==
    /\ s # 0
    /\ parent[s] # 0
    /\ (parent[s] = a \/ IsAncestor(a, parent[s]))

\* The seven fields the specification lists for value equality, read through the accessors.
ContentEqual(W, a, b) ==
    /\ W.states[a].score = W.states[b].score
    /\ W.states[a].gameover = W.states[b].gameover
    /\ W.states[a].win = W.states[b].win
    /\ GetCapsules(W, a) = GetCapsules(W, b)
    /\ GetFood(W, a) = GetFood(W, b)
    /\ GetAgentStates(W, a) = GetAgentStates(W, b)
    /\ W.states[a].layout = W.states[b].layout

(***************************************************************************)
(* Claims about the game state                                             *)
(***************************************************************************)

\* C1: an eatCapsule on a state leaves the capsule collection of every ancestor
\* of that state unchanged (copy-on-write isolation of capsules).
C1_CapsuleIsolation ==
    [][lastOp'.op = "eatCapsule" =>
          \A s \in StateIds :
              IsAncestor(s, lastOp'.target) =>
                  GetCapsules(WorldNext, s) = GetCapsules(World, s)]_vars

\* C2: an eatFood on a state leaves the food grid of every ancestor of that
\* state unchanged, whether or not the ancestor had already cloned its grid.
C2_FoodIsolation ==
    [][lastOp'.op = "eatFood" =>
          \A s \in StateIds :
              IsAncestor(s, lastOp'.target) =>
                  GetFood(WorldNext, s) = GetFood(World, s)]_vars

\* C2 witness: a successor has just eaten a food that its parent, which had
\* already cloned its own grid, still has.
C2_Witness ==
    /\ lastOp.op = "eatFood"
    /\ lastOp.present
    /\ parent[lastOp.target] # 0
    /\ states[parent[lastOp.target]].foodCopied
    /\ HasFood(World, parent[lastOp.target], lastOp.cell)
    /\ ~HasFood(World, lastOp.target, lastOp.cell)

\* C8: two states compare equal exactly when score, game-over flag, win flag,
\* capsules, food, agent states and layout are equal; the last-eaten markers and
\* the copy-on-write flags play no part.
C8_EqIsContentEq ==
    \A a \in StateIds, b \in StateIds :
        StateEq(World, a, b) <=> ContentEqual(World, a, b)

\* C8 witness: two distinct states with the same contents, reached by eating in
\* different orders, so that their last-eaten markers differ.
C8_Witness ==
    \E a \in StateIds, b \in StateIds :
        /\ a # b
        /\ StateEq(World, a, b)
        /\ states[a].food # states[b].food
        /\ states[a].foodCopied # states[b].foodCopied
        /\ states[a].lastFoodEaten # states[b].lastFoodEaten
        /\ states[a].lastFoodEaten # NoCell
        /\ states[b].lastFoodEaten # NoCell

\* C9: hash is defined on every state and equal states have equal hashes.
C9_EqHashConsistent ==
    \A a \in StateIds, b \in StateIds :
        StateEq(World, a, b) =>
            /\ StateHash(World, a) # TypeError
            /\ StateHash(World, b) # TypeError
            /\ StateHash(World, a) = StateHash(World, b)

\* C10: eatFood on a cell without food and eatCapsule on a position without a
\* capsule change nothing at all, and eating the same cell twice gives the
\* same state as eating it once.
C10_EatIdempotent ==
    \A s \in StateIds, c \in Cells :
        /\ ~HasFood(World, s, c) => EatFood(World, s, c) = World
        /\ ~HasCapsule(World, s, c) => EatCapsule(World, s, c) = World
        /\ EatFood(EatFood(World, s, c), s, c) = EatFood(World, s, c)
        /\ EatCapsule(EatCapsule(World, s, c), s, c) = EatCapsule(World, s, c)

\* C10 witness: a cell that was eaten before has just been eaten again.
C10_Witness ==
    /\ lastOp.op \in {"eatFood", "eatCapsule"}
    /\ ~lastOp.present
    /\ \/ lastOp.op = "eatFood" /\ states[lastOp.target].lastFoodEaten = lastOp.cell
       \/ lastOp.op = "eatCapsule" /\ states[lastOp.target].lastCapsuleEaten = lastOp.cell

\* C11: addScore, endGame and an in-place change of an agent state, applied to
\* a state created by _initSuccessor, leave the score, the game-over and win
\* flags and every agent state of each of its ancestors unchanged.
C11_ParentFrame ==
    [][lastOp'.op \in {"addScore", "endGame", "setAgentPosition"} =>
          \A s \in StateIds :
              IsAncestor(s, lastOp'.target) =>
                  /\ WorldNext.states[s].score = World.states[s].score
                  /\ WorldNext.states[s].gameover = World.states[s].gameover
                  /\ WorldNext.states[s].win = World.states[s].win
                  /\ GetAgentStates(WorldNext, s) = GetAgentStates(World, s)]_vars

\* C11 witness: an agent of a successor has just been moved in place, and the
\* successor now differs from its parent in score, game-over flag and agent states.
C11_Witness ==
    /\ lastOp.op = "setAgentPosition"
    /\ parent[lastOp.target] # 0
    /\ states[lastOp.target].score # states[parent[lastOp.target]].score
    /\ states[lastOp.target].gameover # states[parent[lastOp.target]].gameover
    /\ GetAgentStates(World, lastOp.target) # GetAgentStates(World, parent[lastOp.target])

\* What hasFood, hasCapsule, getNumFood and getNumCapsules report for state s.
Reports(W, s) ==
    [hasFood |-> [c \in Cells |-> HasFood(W, s, c)],
     hasCapsule |-> [c \in Cells |-> HasCapsule(W, s, c)],
     numFood |-> GetNumFood(W, s),
     numCapsules |-> GetNumCapsules(W, s)]

\* C30: a caller that changes the value getFood() or getCapsules() returned
\* changes nothing of what hasFood, hasCapsule, getNumFood and getNumCapsules
\* report, for the state asked and for every other state.
C30_AccessorsDoNotExpose ==
    [][lastOp'.op \in {"callerChangesFood", "callerChangesCapsules"} =>
          \A s \in StateIds : Reports(WorldNext, s) = Reports(World, s)]_vars

\* The same for getFood() alone, whose grid is a copy.
C30_FoodCopyIsPrivate ==
    [][lastOp'.op = "callerChangesFood" =>
          \A s \in StateIds : Reports(WorldNext, s) = Reports(World, s)]_vars

(***************************************************************************)
(* Part II.  genericSearch (pacai/student/search.py)                       *)
(***************************************************************************)

\* Bounds of the search model.
MaxCost == 2
MaxH == 2
MaxDetourCost == 3

\* The search problem: a directed graph on four states.  Every candidate edge
\* is an action; graph[e] is its step cost, 0 when the edge is absent.
Nodes == 0..3
EdgeFrom == <<0, 0, 1, 2, 1, 2, 1>>
EdgeTo == <<1, 2, 2, 1, 3, 3, 0>>
EdgeIds == [e \in 1..Len(EdgeFrom) |-> e]
StartingState == 0
IsGoal(n) == n = 3 \/ (startIsGoal /\ n = StartingState)

Modes == {"dfs", "bfs", "ucs", "astar"}
IsPriorityQueue(m) == m \in {"ucs", "astar"}

\* problem.successorStates(n): (state, action, cost) triples in a fixed order.
SuccessorStates(g, n) ==
    LET es == SelectSeq(EdgeIds, LAMBDA e : EdgeFrom[e] = n /\ g[e] > 0)
    IN [i \in 1..Len(es) |->
            [state |-> EdgeTo[es[i]], action |-> es[i], cost |-> g[es[i]]]]

\* Order of heap entries (priority, (state, cost)): Python tuple comparison.
EntryLess(a, b) ==
    \/ a.prio < b.prio
    \/ a.prio = b.prio /\ a.state < b.state
    \/ a.prio = b.prio /\ a.state = b.state /\ a.cost < b.cost

\* Stack.push and PriorityQueue.push add at the end; Queue.push inserts at index 0.
FrontierPush(m, f, e) == IF m = "bfs" THEN <<e>> \o f ELSE Append(f, e)

\* Stack.pop and Queue.pop take the last element; PriorityQueue.pop the least entry.
FrontierPopIndex(m, f) ==
    IF IsPriorityQueue(m)
    THEN CHOOSE i \in 1..Len(f) :
            \A j \in 1..Len(f) :
                j # i => (EntryLess(f[i], f[j]) \/ (~EntryLess(f[j], f[i]) /\ i < j))
    ELSE Len(f)

RemoveAt(f, i) == SubSeq(f, 1, i - 1) \o SubSeq(f, i + 1, Len(f))

Reverse(q) == [i \in 1..Len(q) |-> q[Len(q) + 1 - i]]

\* The back-pointer walk of lines 30-32: the actions from the goal back to the
\* start.  A missing key raises KeyError; a walk that outlives every simple
\* chain of back-pointers never ends.
WalkFuel == Cardinality(Nodes) + 1

RECURSIVE BackWalk(_, _, _, _)
BackWalk(path, state, acc, fuel) ==
    IF state = StartingState THEN [status |-> "ok", actions |-> acc]
    ELSE IF state \notin DOMAIN path THEN [status |-> "KeyError", actions |-> acc]
    ELSE IF fuel = 0 THEN [status |-> "diverges", actions |-> acc]
    ELSE BackWalk(path, path[state].pred, Append(acc, path[state].action), fuel - 1)

ReconstructNotReversed(path, state) ==
    LET w == BackWalk(path, state, <<>>, WalkFuel)
    IN [status |-> w.status, actions |-> w.actions]

Reconstruct(path, state) ==
    LET w == BackWalk(path, state, <<>>, WalkFuel)
    IN [status |-> w.status, actions |-> Reverse(w.actions)]

\* The priority a successor is pushed with (line 46):
\* cost + heuristic(successor) if heuristic else 0.
PushPriority(m, h, n, cost) == IF m = "astar" THEN cost + h[n] ELSE 0

\* The for loop of lines 40-51 over the successors of the popped state.
RECURSIVE PushSuccessorsOverwrite(_, _, _, _, _, _)
PushSuccessorsOverwrite(m, h, st, from, currCost, succs) ==
    IF succs = <<>> THEN st
    ELSE LET sc == Head(succs)
             cost == sc.cost + currCost
             entry == [state |-> sc.state, cost |-> cost,
                       prio |-> IF IsPriorityQueue(m)
                                THEN PushPriority(m, h, sc.state, cost) ELSE 0]
             st1 == [st EXCEPT
                        !.frontier = FrontierPush(m, @, entry),
                        !.path = (sc.state :> [pred |-> from, action |-> sc.action]) @@ @]
         IN PushSuccessorsOverwrite(m, h, st1, from, currCost, Tail(succs))

RECURSIVE PushSuccessors(_, _, _, _, _, _)
PushSuccessors(m, h, st, from, currCost, succs) ==
    IF succs = <<>> THEN st
    ELSE LET sc == Head(succs)
             cost == sc.cost + currCost
             entry == [state |-> sc.state, cost |-> cost,
                       prio |-> IF IsPriorityQueue(m)
                                THEN PushPriority(m, h, sc.state, cost) ELSE 0]
             st1 == [st EXCEPT
                        !.frontier = FrontierPush(m, @, entry),
                        !.path = IF sc.state \in DOMAIN @
                                 THEN @
                                 ELSE (sc.state :> [pred |-> from, action |-> sc.action]) @@ @]
         IN PushSuccessors(m, h, st1, from, currCost, Tail(succs))

\* The state of genericSearch when the while loop is first reached.
InitialSearch ==
    [frontier |-> << [state |-> StartingState, cost |-> 0, prio |-> 0] >>,
     path |-> << >>,
     visited |-> {},
     expansions |-> << >>,
     cur |-> [state |-> StartingState, cost |-> 0, prio |-> 0],
     npop |-> 0,
     result |-> [status |-> "running", actions |-> << >>],
     pc |-> "loop"]

IterateExpandFirst(g, m, h, st) ==
    LET i == FrontierPopIndex(m, st.frontier)
        e == st.frontier[i]
        popped == [st EXCEPT !.frontier = RemoveAt(@, i), !.cur = e, !.npop = @ + 1]
        expanded == IF e.state \notin st.visited
                    THEN PushSuccessors(m, h, [popped EXCEPT !.visited = @ \cup {e.state},
                                                             !.expansions = Append(@, e.state)],
                                        e.state, e.cost, SuccessorStates(g, e.state))
                    ELSE popped
    IN IF IsGoal(e.state)
       THEN [expanded EXCEPT !.result = Reconstruct(st.path, e.state), !.pc = "done"]
       ELSE expanded

IterateNoVisitedTest(g, m, h, st) ==
    LET i == FrontierPopIndex(m, st.frontier)
        e == st.frontier[i]
        popped == [st EXCEPT !.frontier = RemoveAt(@, i), !.cur = e, !.npop = @ + 1]
    IN IF IsGoal(e.state)
       THEN [popped EXCEPT !.result = Reconstruct(st.path, e.state), !.pc = "done"]
       ELSE PushSuccessors(m, h, [popped EXCEPT !.visited = @ \cup {e.state},
                                                !.expansions = Append(@, e.state)],
                           e.state, e.cost, SuccessorStates(g, e.state))

\* One iteration of the while loop: pop, goal test, expansion
\* (st.expansions lists the calls of problem.successorStates).
Iterate(g, m, h, st) ==
    LET i == FrontierPopIndex(m, st.frontier)
        e == st.frontier[i]
        popped == [st EXCEPT !.frontier = RemoveAt(@, i), !.cur = e, !.npop = @ + 1]
    IN IF IsGoal(e.state)
       THEN [popped EXCEPT !.result = Reconstruct(st.path, e.state), !.pc = "done"]
       ELSE IF e.state \notin st.visited
            THEN PushSuccessors(m, h, [popped EXCEPT !.visited = @ \cup {e.state},
                                                     !.expansions = Append(@, e.state)],
                                e.state, e.cost, SuccessorStates(g, e.state))
            ELSE popped

ExhaustedPopsAgain(st) ==
    [st EXCEPT !.result = [status |-> "IndexError", actions |-> << >>], !.pc = "done"]

\* Line 54: the frontier is empty, there is no solution.
Exhausted(st) ==
    [st EXCEPT !.result = [status |-> "ok", actions |-> << >>], !.pc = "done"]

\* genericSearch run to its return.
RECURSIVE RunSearch(_, _, _, _)
RunSearch(g, m, h, st) ==
    IF st.pc = "done" THEN st
    ELSE IF st.frontier = << >> THEN Exhausted(st)
    ELSE RunSearch(g, m, h, Iterate(g, m, h, st))

ZeroHeuristic == [n \in Nodes |-> 0]

Heuristics ==
    {[n \in Nodes |-> IF n \in DOMAIN f THEN f[n] ELSE 0] : f \in [{1, 2} -> 0..MaxH]}

breadthFirstSearch(g) == RunSearch(g, "bfs", ZeroHeuristic, InitialSearch).result
depthFirstSearch(g) == RunSearch(g, "dfs", ZeroHeuristic, InitialSearch).result
uniformCostSearch(g) == RunSearch(g, "ucs", ZeroHeuristic, InitialSearch).result
aStarSearch(g, h) == RunSearch(g, "astar", h, InitialSearch).result

SearchIterate ==
    /\ search.pc = "loop"
    /\ search.frontier # << >>
    /\ search' = Iterate(graph, mode, heur, search)
    /\ UNCHANGED <<graph, startIsGoal, mode, heur, gsVars, treeVars, gridVars, mdpVars>>

SearchExhausted ==
    /\ search.pc = "loop"
    /\ search.frontier = << >>
    /\ search' = Exhausted(search)
    /\ UNCHANGED <<graph, startIsGoal, mode, heur, gsVars, treeVars, gridVars, mdpVars>>

\* Reference quantities the claims compare the search against.
Infinity == Len(EdgeFrom) * (MaxDetourCost + 1) + 1

MinOfSet(S) == CHOOSE x \in S : \A y \in S : x <= y

\* Least cost of a path of at most k steps from n to a goal.
RECURSIVE CostWithin(_, _, _)
CostWithin(g, n, k) ==
    IF IsGoal(n) THEN 0
    ELSE IF k = 0 THEN Infinity
    ELSE LET succs == SuccessorStates(g, n)
         IN MinOfSet({Infinity} \cup
                     {Min2(Infinity, succs[i].cost + CostWithin(g, succs[i].state, k - 1)) :
                          i \in 1..Len(succs)})

TrueCost(g, n) == CostWithin(g, n, Cardinality(Nodes) - 1)

Admissible(g, h) == \A n \in Nodes : h[n] <= TrueCost(g, n)

UnitCosts(g) == \A e \in DOMAIN g : g[e] <= 1

RECURSIVE PathCost(_, _)
PathCost(g, actions) ==
    IF actions = << >> THEN 0 ELSE g[Head(actions)] + PathCost(g, Tail(actions))

SearchNext ==
    \/ SearchIterate
    \/ SearchExhausted

(***************************************************************************)
(* Claims about genericSearch                                              *)
(***************************************************************************)

\* Every frontier entry that was pushed as a successor (step costs are positive,
\* so these are the entries with a positive accumulated cost).
PushedEntries(st) == {i \in 1..Len(st.frontier) : st.frontier[i].cost > 0}

\* C3: uniformCostSearch pushes every successor with priority equal to its
\* accumulated cost, aStarSearch with accumulated cost plus heuristic, and the
\* entries of uniformCostSearch are popped in non-decreasing accumulated cost.
C3_PriorityIsCost ==
    [][/\ \A i \in PushedEntries(search') :
              /\ mode = "ucs" =>
                     search'.frontier[i].prio = search'.frontier[i].cost
              /\ mode = "astar" =>
                     search'.frontier[i].prio =
                         search'.frontier[i].cost + heur[search'.frontier[i].state]
       /\ (mode = "ucs" /\ search.npop > 0 /\ search'.npop > search.npop) =>
              search'.cur.cost >= search.cur.cost]_vars

\* C6: on a problem whose every step costs 1 and whose goal is reachable,
\* breadthFirstSearch returns as many actions as the shortest path has steps.
C6_BfsShortest ==
    (/\ mode = "bfs"
     /\ search.pc = "done"
     /\ UnitCosts(graph)
     /\ TrueCost(graph, StartingState) < Infinity)
    => /\ search.result.status = "ok"
       /\ Len(search.result.actions) = TrueCost(graph, StartingState)

\* C6 witness: breadth-first search has returned a two-step path in a graph
\* that also holds a three-step route to the goal.
C6_Witness ==
    /\ mode = "bfs"
    /\ search.pc = "done"
    /\ UnitCosts(graph)
    /\ graph[1] = 1 /\ graph[3] = 1 /\ graph[6] = 1 /\ graph[2] = 1
    /\ Len(search.result.actions) = 2

\* C7: with non-negative step costs and an admissible heuristic, the path
\* aStarSearch returns costs no more than the path uniformCostSearch returns.
C7_AStarNoWorseThanUcs ==
    (/\ mode = "astar"
     /\ search.pc = "done"
     /\ Admissible(graph, heur))
    => PathCost(graph, search.result.actions)
           <= PathCost(graph, uniformCostSearch(graph).actions)

GoalUnreachable(g) == TrueCost(g, StartingState) = Infinity

\* C15: when no goal state can be reached from the start, genericSearch, with
\* a stack, a queue or a priority queue, comes to its return and returns the
\* empty action list without raising an error.
C15_NoSolutionReturnsEmpty ==
    GoalUnreachable(graph) =>
        <>(/\ search.pc = "done"
           /\ search.result = [status |-> "ok", actions |-> << >>])

\* C15 witness: a search has returned on a graph whose states 0, 1 and 2 lie on
\* cycles and whose goal is cut off, after popping entries of states already
\* expanded.
C15_Witness ==
    /\ search.pc = "done"
    /\ GoalUnreachable(graph)
    /\ graph[1] > 0 /\ graph[7] > 0 /\ graph[3] > 0 /\ graph[4] > 0
    /\ search.npop > Cardinality(search.visited)
    /\ search.result.actions = << >>

\* C16: when the starting state is a goal, genericSearch returns the empty
\* action list at its first pop and expands no state: successorStates is
\* never called and nothing is pushed.
C16_StartIsGoal ==
    IsGoal(StartingState) =>
        /\ search.visited = {}
        /\ search.path = << >>
        /\ search.pc = "loop" => search.npop = 0
        /\ search.pc = "done" =>
               /\ search.npop = 1
               /\ search.frontier = << >>
               /\ search.result = [status |-> "ok", actions |-> << >>]

\* C16 witness: a search has returned at a starting state that is a goal and
\* has two successors.
C16_Witness ==
    /\ IsGoal(StartingState)
    /\ search.pc = "done"
    /\ Len(SuccessorStates(graph, StartingState)) = 2
    /\ search.result.actions = << >>

\* Least cost of a path of at most k steps from the starting state to n.
RECURSIVE StartCostWithin(_, _, _)
StartCostWithin(g, n, k) ==
    IF n = StartingState THEN 0
    ELSE IF k = 0 THEN Infinity
    ELSE MinOfSet({Infinity} \cup
                  {Min2(Infinity, g[e] + StartCostWithin(g, EdgeFrom[e], k - 1)) :
                       e \in {d \in 1..Len(EdgeFrom) : EdgeTo[d] = n /\ g[d] > 0}})

StartCost(g, n) == StartCostWithin(g, n, Cardinality(Nodes) - 1)

\* A consistent heuristic: 0 at the goal and never dropping by more than the
\* step cost along an edge.
Consistent(g, h) ==
    /\ \A n \in Nodes : IsGoal(n) => h[n] = 0
    /\ \A e \in 1..Len(EdgeFrom) : g[e] > 0 => h[EdgeFrom[e]] <= g[e] + h[EdgeTo[e]]

\* C23: with a priority-queue frontier (uniformCostSearch, and aStarSearch
\* with a consistent heuristic), the pop that adds a state to the visited set
\* carries the least cost of a path from the starting state to that state.
C23_FirstPopIsCheapest ==
    [][(/\ IsPriorityQueue(mode)
        /\ mode = "astar" => Consistent(graph, heur)
        /\ search'.visited # search.visited)
       => search'.cur.cost = StartCost(graph, search'.cur.state)]_vars

\* C24: when genericSearch with a priority-queue frontier returns a path, the
\* step costs of the returned actions add up to the accumulated cost of the
\* goal entry that was popped.
C24_PathCostIsPoppedCost ==
    (/\ IsPriorityQueue(mode)
     /\ search.pc = "done"
     /\ IsGoal(search.cur.state)
     /\ search.result.status = "ok")
    => PathCost(graph, search.result.actions) = search.cur.cost

\* The state reached by taking the actions in order from state n, each one
\* among problem.successorStates of the state it is taken in; -1 when one of
\* them is not.
RECURSIVE ApplyActions(_, _, _)
ApplyActions(g, n, actions) ==
    IF actions = << >> THEN n
    ELSE LET succs == SuccessorStates(g, n)
             hits == {i \in 1..Len(succs) : succs[i].action = Head(actions)}
         IN IF hits = {} THEN 0 - 1
            ELSE ApplyActions(g, succs[CHOOSE i \in hits : TRUE].state, Tail(actions))

\* C25: whenever genericSearch returns a non-empty action list, with any of
\* the four frontiers, the back-pointer walk has ended at the starting state,
\* and the actions taken in order from the starting state follow
\* problem.successorStates and end in a goal state.
C25_ReturnedPathIsValid ==
    (search.pc = "done" /\ search.result.actions # << >>)
    => /\ search.result.status = "ok"
       /\ ApplyActions(graph, StartingState, search.result.actions) \in Nodes
       /\ IsGoal(ApplyActions(graph, StartingState, search.result.actions))

\* C25 witness: a search has returned a path of three actions on a graph in
\* which the starting state itself was reached again and has a back-pointer.
C25_Witness ==
    /\ search.pc = "done"
    /\ Len(search.result.actions) = 3
    /\ StartingState \in DOMAIN search.path
    /\ search.result.status = "ok"

\* C26: during a run of genericSearch no state is expanded twice, although
\* it may be pushed several times; popping a state that is already visited
\* pushes nothing, records no back-pointer and calls successorStates on nothing.
C26_ExpandedOnce ==
    [][/\ \A i, j \in 1..Len(search'.expansions) :
              search'.expansions[i] = search'.expansions[j] => i = j
       /\ (/\ search'.npop = search.npop + 1
           /\ search'.pc = "loop"
           /\ search'.cur.state \in search.visited)
          => /\ Len(search'.frontier) = Len(search.frontier) - 1
             /\ search'.path = search.path
             /\ search'.expansions = search.expansions
             /\ search'.visited = search.visited]_vars

\* C26 witness: the three states that are not goals have been expanded, and
\* the entry just popped is a second entry of a state expanded before.
C26_Witness ==
    /\ search.pc = "loop"
    /\ Len(search.expansions) = 3
    /\ search.npop > Len(search.expansions)
    /\ \E i \in 1..(Len(search.expansions) - 1) : search.expansions[i] = search.cur.state

(***************************************************************************)
(* Part III.  MinimaxAgent and AlphaBetaAgent (pacai/student/multiagents.py)*)
(***************************************************************************)

\* Bounds of the game-tree model.
MaxAgents == 3
MaxDepth == 2
MaxBranch == 2
MaxLeaves == 8
MaxVal == 1
BranchLevels == 4

\* float('-inf') and float('inf'): below and above every evaluation.
NegInf == 0 - (MaxVal + 1)
PosInf == MaxVal + 1

RECURSIVE SeqProduct(_)
SeqProduct(q) == IF q = << >> THEN 1 ELSE Head(q) * SeqProduct(Tail(q))

\* A game: the number of agents, the tree depth of the agent, the number of
\* legal actions at each of the first levels of the tree (1 below them), the
\* evaluation function as a table over the leaves, and which state is terminal
\* (0: none; 1: the state after action 1 is a loss; 2: the state after
\* actions 1, 1 is a win).
BranchVectors(n, d) ==
    {b \in [1..BranchLevels -> 1..MaxBranch] :
        /\ SeqProduct(b) <= MaxLeaves
        /\ \A l \in 1..BranchLevels : l > n * d => b[l] = 1}

\* A game state is named by the actions that led to it; movers records which
\* agent made each of them.
RootState == [path |-> << >>, movers |-> << >>]

BranchAt(G, lvl) == IF lvl <= Len(G.branch) THEN G.branch[lvl] ELSE 1

GetLegalActions(G, gs, agentIndex) ==
    [i \in 1..BranchAt(G, Len(gs.path) + 1) |-> i]

GenerateSuccessor(G, gs, agentIndex, action) ==
    [path |-> Append(gs.path, action), movers |-> Append(gs.movers, agentIndex)]

IsLose(G, gs) == G.term = 1 /\ gs.path = <<1>>
IsWin(G, gs) == G.term = 2 /\ gs.path = <<1, 1>>

\* Position of a state in the evaluation table: its path, continued with
\* action 1 down to the leaves, in mixed radix over the branching.
RECURSIVE LeafOffset(_, _, _)
LeafOffset(G, path, lvl) ==
    IF lvl > Len(G.branch) THEN 0
    ELSE LET a == IF lvl <= Len(path) THEN path[lvl] ELSE 1
         IN (a - 1) * SeqProduct(SubSeq(G.branch, lvl + 1, Len(G.branch)))
                + LeafOffset(G, path, lvl + 1)

EvaluationFunction(G, gs) == G.eval[1 + LeafOffset(G, gs.path, 1)]

TerminalNodeDepthOnly(G, gs, treeDepth) == treeDepth = 0

TerminalNode(G, gs, treeDepth) == IsWin(G, gs) \/ IsLose(G, gs) \/ treeDepth = 0

\* Results carry the set of states the evaluation function was applied to.
Leaf(G, gs) == [kind |-> "value", val |-> EvaluationFunction(G, gs), evald |-> {gs}]

Pending == [kind |-> "pending", val |-> 0, evald |-> {}]

\* ---- MinimaxAgent ----
RECURSIVE MM_maxValue(_, _, _)
RECURSIVE MM_maxLoop(_, _, _, _, _, _, _)
RECURSIVE MM_minValue(_, _, _, _)
RECURSIVE MM_minLoop(_, _, _, _, _, _, _)

MM_maxLoopLastWins(G, gs, treeDepth, actions, v, bestAction, evald) ==
    IF actions = << >> THEN [v |-> v, bestAction |-> bestAction, evald |-> evald]
    ELSE LET r == MM_minValue(G, GenerateSuccessor(G, gs, 0, Head(actions)), treeDepth, 1)
         IN IF r.val >= v
            THEN MM_maxLoop(G, gs, treeDepth, Tail(actions), r.val, Head(actions),
                            evald \cup r.evald)
            ELSE MM_maxLoop(G, gs, treeDepth, Tail(actions), v, bestAction,
                            evald \cup r.evald)

\* The for loop of maxValue: v, bestAction (0 for None) and the evaluated states.
MM_maxLoop(G, gs, treeDepth, actions, v, bestAction, evald) ==
    IF actions = << >> THEN [v |-> v, bestAction |-> bestAction, evald |-> evald]
    ELSE LET r == MM_minValue(G, GenerateSuccessor(G, gs, 0, Head(actions)), treeDepth, 1)
         IN IF r.val > v
            THEN MM_maxLoop(G, gs, treeDepth, Tail(actions), r.val, Head(actions),
                            evald \cup r.evald)
            ELSE MM_maxLoop(G, gs, treeDepth, Tail(actions), v, bestAction,
                            evald \cup r.evald)

MM_maxValue(G, gs, treeDepth) ==
    IF TerminalNode(G, gs, treeDepth) THEN Leaf(G, gs)
    ELSE LET r == MM_maxLoop(G, gs, treeDepth, GetLegalActions(G, gs, 0), NegInf, 0, {})
         IN IF treeDepth = G.depth
            THEN [kind |-> IF r.bestAction = 0 THEN "none" ELSE "action",
                  val |-> r.bestAction, evald |-> r.evald]
            ELSE [kind |-> "value", val |-> r.v, evald |-> r.evald]

MM_minLoop(G, gs, treeDepth, agentIndex, actions, v, evald) ==
    IF actions = << >> THEN [kind |-> "value", val |-> v, evald |-> evald]
    ELSE LET r == MM_minValue(G, GenerateSuccessor(G, gs, agentIndex, Head(actions)),
                              treeDepth, agentIndex + 1)
         IN MM_minLoop(G, gs, treeDepth, agentIndex, Tail(actions), Min2(v, r.val),
                       evald \cup r.evald)

MM_minValue(G, gs, treeDepth, agentIndex) ==
    IF TerminalNode(G, gs, treeDepth) THEN Leaf(G, gs)
    ELSE IF agentIndex = G.n - 1 THEN MM_maxValue(G, gs, treeDepth - 1)
    ELSE MM_minLoop(G, gs, treeDepth, agentIndex,
                    GetLegalActions(G, gs, agentIndex), PosInf, {})

MinimaxGetAction(G) == MM_maxValue(G, RootState, G.depth)

\* ---- AlphaBetaAgent ----
RECURSIVE AB_maxValue(_, _, _, _, _)
RECURSIVE AB_maxLoop(_, _, _, _, _, _, _, _)
RECURSIVE AB_minValue(_, _, _, _, _, _)
RECURSIVE AB_minLoopPruneOnBeta(_, _, _, _, _, _, _, _, _)
RECURSIVE AB_minLoop(_, _, _, _, _, _, _, _, _)
RECURSIVE AB_rootLoop(_, _, _, _, _, _, _, _)

AB_maxLoop(G, gs, treeDepth, actions, alpha, beta, v, evald) ==
    IF actions = << >> THEN [kind |-> "value", val |-> v, evald |-> evald]
    ELSE LET r == AB_minValue(G, GenerateSuccessor(G, gs, 0, Head(actions)),
                              treeDepth, alpha, beta, 1)
             v1 == Max2(v, r.val)
         IN IF v1 >= beta
            THEN [kind |-> "value", val |-> v1, evald |-> evald \cup r.evald]
            ELSE AB_maxLoop(G, gs, treeDepth, Tail(actions), Max2(alpha, v1), beta, v1,
                            evald \cup r.evald)

AB_maxValue(G, gs, treeDepth, alpha, beta) ==
    IF TerminalNode(G, gs, treeDepth) THEN Leaf(G, gs)
    ELSE AB_maxLoop(G, gs, treeDepth, GetLegalActions(G, gs, 0), alpha, beta, NegInf, {})

AB_minLoopPruneOnBeta(G, gs, treeDepth, agentIndex, actions, alpha, beta, v, evald) ==
    IF actions = << >> THEN [kind |-> "value", val |-> v, evald |-> evald]
    ELSE LET r == AB_minValue(G, GenerateSuccessor(G, gs, agentIndex, Head(actions)),
                              treeDepth, alpha, beta, agentIndex + 1)
             v1 == Min2(v, r.val)
         IN IF v1 < beta
            THEN [kind |-> "value", val |-> v1, evald |-> evald \cup r.evald]
            ELSE AB_minLoop(G, gs, treeDepth, agentIndex, Tail(actions), alpha,
                            Min2(beta, v1), v1, evald \cup r.evald)

AB_minLoop(G, gs, treeDepth, agentIndex, actions, alpha, beta, v, evald) ==
    IF actions = << >> THEN [kind |-> "value", val |-> v, evald |-> evald]
    ELSE LET r == AB_minValue(G, GenerateSuccessor(G, gs, agentIndex, Head(actions)),
                              treeDepth, alpha, beta, agentIndex + 1)
             v1 == Min2(v, r.val)
         IN IF v1 <= alpha
            THEN [kind |-> "value", val |-> v1, evald |-> evald \cup r.evald]
            ELSE AB_minLoop(G, gs, treeDepth, agentIndex, Tail(actions), alpha,
                            Min2(beta, v1), v1, evald \cup r.evald)

AB_minValue(G, gs, treeDepth, alpha, beta, agentIndex) ==
    IF TerminalNode(G, gs, treeDepth) THEN Leaf(G, gs)
    ELSE IF agentIndex = G.n - 1 THEN AB_maxValue(G, gs, treeDepth - 1, alpha, beta)
    ELSE AB_minLoop(G, gs, treeDepth, agentIndex, GetLegalActions(G, gs, agentIndex),
                    alpha, beta, PosInf, {})

\* The for loop of alphaBeta at the root.
AB_rootLoop(G, gs, actions, alpha, beta, v, bestAction, evald) ==
    IF actions = << >> THEN [v |-> v, bestAction |-> bestAction, evald |-> evald]
    ELSE LET r == AB_minValue(G, GenerateSuccessor(G, gs, 0, Head(actions)),
                              G.depth, alpha, beta, 1)
         IN IF r.val > v
            THEN AB_rootLoop(G, gs, Tail(actions), Max2(alpha, r.val), beta, r.val,
                             Head(actions), evald \cup r.evald)
            ELSE AB_rootLoop(G, gs, Tail(actions), Max2(alpha, v), beta, v, bestAction,
                             evald \cup r.evald)

alphaBeta(G, gs) ==
    IF TerminalNode(G, gs, G.depth) THEN Leaf(G, gs)
    ELSE LET r == AB_rootLoop(G, gs, GetLegalActions(G, gs, 0), NegInf, PosInf,
                              NegInf, 0, {})
         IN [kind |-> IF r.bestAction = 0 THEN "none" ELSE "action",
             val |-> r.bestAction, evald |-> r.evald]

AlphaBetaGetAction(G) == alphaBeta(G, RootState)

\* ---- ExpectimaxAgent ----
\* expValue divides by the number of actions: values are fractions num/den with
\* den > 0, which is what the float division gives for the branchings used here.
RECURSIVE Gcd(_, _)
Gcd(a, b) == IF b = 0 THEN a ELSE Gcd(b, a % b)

\* A fraction in lowest terms: every number has one representation.
RatNorm(n, d) == LET g == Gcd(Abs(n), d) IN [num |-> n \div g, den |-> d \div g]

Rat(k) == [num |-> k, den |-> 1]
RatAdd(a, b) == RatNorm(a.num * b.den + b.num * a.den, a.den * b.den)
RatDivInt(a, k) == RatNorm(a.num, a.den * k)
RatLess(a, b) == a.num * b.den < b.num * a.den
RatEq(a, b) == a.num * b.den = b.num * a.den

\* Results also carry the nodes visited: state, tree depth and agent the call
\* was made with, the value computed there and the values of its children.
TreeNode(gs, treeDepth, agentIndex, val, kids) ==
    [gs |-> gs, depth |-> treeDepth, agent |-> agentIndex, val |-> val, kids |-> kids]

ExPending == [kind |-> "pending", val |-> 0, evald |-> {}, nodes |-> {}]

EmptyAcc == [evald |-> {}, nodes |-> {}, kids |-> << >>]

EX_nextDepthEveryMove(G, treeDepth, agentIndex) == treeDepth - 1

\* Lines 283-284 and 296-297: the depth the children are searched with.
EX_nextDepth(G, treeDepth, agentIndex) ==
    IF agentIndex = G.n - 1 THEN treeDepth - 1 ELSE treeDepth

RECURSIVE EX_value(_, _, _, _)
RECURSIVE EX_maxLoop(_, _, _, _, _, _, _, _)
RECURSIVE EX_expLoop(_, _, _, _, _, _, _)

EX_maxLoop(G, gs, treeDepth, agentIndex, actions, v, bestAction, acc) ==
    IF actions = << >>
    THEN [v |-> v, bestAction |-> bestAction, evald |-> acc.evald, nodes |-> acc.nodes,
          kids |-> acc.kids]
    ELSE LET r == EX_value(G, GenerateSuccessor(G, gs, agentIndex, Head(actions)),
                           treeDepth, (agentIndex + 1) % G.n)
             acc1 == [evald |-> acc.evald \cup r.evald, nodes |-> acc.nodes \cup r.nodes,
                      kids |-> Append(acc.kids, r.val)]
         IN IF RatLess(v, r.val)
            THEN EX_maxLoop(G, gs, treeDepth, agentIndex, Tail(actions), r.val,
                            Head(actions), acc1)
            ELSE EX_maxLoop(G, gs, treeDepth, agentIndex, Tail(actions), v,
                            bestAction, acc1)

EX_maxValue(G, gs, treeDepth, agentIndex) ==
    EX_maxLoop(G, gs, EX_nextDepth(G, treeDepth, agentIndex), agentIndex,
               GetLegalActions(G, gs, agentIndex), Rat(NegInf), 0, EmptyAcc)

EX_expLoop(G, gs, treeDepth, agentIndex, actions, v, acc) ==
    IF actions = << >>
    THEN [v |-> v, evald |-> acc.evald, nodes |-> acc.nodes, kids |-> acc.kids]
    ELSE LET r == EX_value(G, GenerateSuccessor(G, gs, agentIndex, Head(actions)),
                           treeDepth, (agentIndex + 1) % G.n)
             acc1 == [evald |-> acc.evald \cup r.evald, nodes |-> acc.nodes \cup r.nodes,
                      kids |-> Append(acc.kids, r.val)]
         IN EX_expLoop(G, gs, treeDepth, agentIndex, Tail(actions), RatAdd(v, r.val), acc1)

EX_expValueMin(G, gs, treeDepth, agentIndex) ==
    LET actions == GetLegalActions(G, gs, agentIndex)
        r == EX_expLoop(G, gs, EX_nextDepth(G, treeDepth, agentIndex), agentIndex,
                        actions, Rat(0), EmptyAcc)
        least == CHOOSE i \in 1..Len(r.kids) :
                     \A j \in 1..Len(r.kids) : ~RatLess(r.kids[j], r.kids[i])
        val == r.kids[least]
    IN [kind |-> "value", val |-> val, evald |-> r.evald,
        nodes |-> r.nodes \cup {TreeNode(gs, treeDepth, agentIndex, val, r.kids)}]

EX_expValue(G, gs, treeDepth, agentIndex) ==
    LET actions == GetLegalActions(G, gs, agentIndex)
        r == EX_expLoop(G, gs, EX_nextDepth(G, treeDepth, agentIndex), agentIndex,
                        actions, Rat(0), EmptyAcc)
        val == RatDivInt(r.v, Len(actions))
    IN [kind |-> "value", val |-> val, evald |-> r.evald,
        nodes |-> r.nodes \cup {TreeNode(gs, treeDepth, agentIndex, val, r.kids)}]

EX_value(G, gs, treeDepth, agentIndex) ==
    IF TerminalNode(G, gs, treeDepth)
    THEN LET val == Rat(EvaluationFunction(G, gs))
         IN [kind |-> "value", val |-> val, evald |-> {gs},
             nodes |-> {TreeNode(gs, treeDepth, agentIndex, val, << >>)}]
    ELSE IF agentIndex = 0
         THEN LET r == EX_maxValue(G, gs, treeDepth, agentIndex)
                  nodes == r.nodes \cup {TreeNode(gs, treeDepth, agentIndex, r.v, r.kids)}
              IN IF treeDepth = G.depth
                 THEN [kind |-> IF r.bestAction = 0 THEN "none" ELSE "action",
                       val |-> r.bestAction, evald |-> r.evald, nodes |-> nodes]
                 ELSE [kind |-> "value", val |-> r.v, evald |-> r.evald, nodes |-> nodes]
         ELSE EX_expValue(G, gs, treeDepth, agentIndex)

ExpectimaxGetAction(G) == EX_value(G, RootState, G.depth, 0)

RunMinimax ==
    /\ mmResult.kind = "pending"
    /\ mmResult' = MinimaxGetAction(game)
    /\ UNCHANGED <<game, abResult, exResult, gsVars, searchVars, gridVars, mdpVars>>

RunAlphaBeta ==
    /\ abResult.kind = "pending"
    /\ abResult' = AlphaBetaGetAction(game)
    /\ UNCHANGED <<game, mmResult, exResult, gsVars, searchVars, gridVars, mdpVars>>

RunExpectimax ==
    /\ exResult.kind = "pending"
    /\ exResult' = ExpectimaxGetAction(game)
    /\ UNCHANGED <<game, mmResult, abResult, gsVars, searchVars, gridVars, mdpVars>>

TreeNext ==
    \/ RunMinimax
    \/ RunAlphaBeta
    \/ RunExpectimax

(***************************************************************************)
(* Claims about the adversarial search                                     *)
(***************************************************************************)

\* The moves on the way to gs go round the agents in index order: 0, 1, ...,
\* N-1, 0, 1, ...
RoundRobin(G, gs) ==
    \A i \in 1..Len(gs.movers) : gs.movers[i] = (i - 1) % G.n

\* C4: in minimax and in alpha-beta search every ply consists of one move of
\* each agent 0, 1, ..., N-1 in index order, so that the last agent has moved
\* whenever control is back at agent 0.
C4_EveryAgentMoves ==
    /\ \A gs \in mmResult.evald : RoundRobin(game, gs)
    /\ \A gs \in abResult.evald : RoundRobin(game, gs)

\* C5: AlphaBetaAgent.getAction returns what MinimaxAgent.getAction returns.
C5_AlphaBetaIsMinimax ==
    (mmResult.kind # "pending" /\ abResult.kind # "pending") =>
        (mmResult.kind = abResult.kind /\ mmResult.val = abResult.val)

\* C5 witness: both agents have chosen an action at a root whose two actions
\* have the same minimax value, and alpha-beta has pruned part of the tree.
C5_Witness ==
    /\ mmResult.kind = "action"
    /\ abResult.kind = "action"
    /\ abResult.evald # mmResult.evald
    /\ game.branch[1] = 2
    /\ MM_minValue(game, GenerateSuccessor(game, RootState, 0, 1), game.depth, 1).val
         = MM_minValue(game, GenerateSuccessor(game, RootState, 0, 2), game.depth, 1).val

\* How many of the moves on the way to gs were made by the last agent.
LastAgentMoves(G, gs) == Cardinality({i \in 1..Len(gs.movers) : gs.movers[i] = G.n - 1})

\* C12: in ExpectimaxAgent the agents move in index order and the remaining
\* depth goes down by one at each move of the last agent and at no other move,
\* so the evaluation function is applied, on a path without a win or a loss,
\* after exactly treeDepth * N moves.
C12_DepthPerRound ==
    /\ \A nd \in exResult.nodes :
           /\ RoundRobin(game, nd.gs)
           /\ nd.agent = Len(nd.gs.movers) % game.n
           /\ nd.depth = game.depth - LastAgentMoves(game, nd.gs)
    /\ \A gs \in exResult.evald :
           (~IsWin(game, gs) /\ ~IsLose(game, gs)) =>
               Len(gs.movers) = game.depth * game.n

\* C12 witness: with three agents and depth two, a state was evaluated after
\* six moves, in a tree that branches at the moves of the agents 1 and 2.
C12_Witness ==
    /\ exResult.kind = "action"
    /\ game.n = 3 /\ game.depth = 2
    /\ game.branch[2] = 2 /\ game.branch[3] = 2
    /\ \E gs \in exResult.evald : gs.movers = <<0, 1, 2, 0, 1, 2>>

RECURSIVE RatSum(_)
RatSum(q) == IF q = << >> THEN Rat(0) ELSE RatAdd(Head(q), RatSum(Tail(q)))

\* The values in kids are the values computed at the children of nd.
KidsAreChildren(G, nodes, nd) ==
    /\ Len(nd.kids) = Len(GetLegalActions(G, nd.gs, nd.agent))
    /\ \A i \in 1..Len(nd.kids) :
           \E c \in nodes :
               /\ c.gs = GenerateSuccessor(G, nd.gs, nd.agent, i)
               /\ c.val = nd.kids[i]

\* C13: in ExpectimaxAgent the value of a non-terminal node of an agent >= 1
\* is the sum of its children's values divided by the number of legal actions,
\* and the value of a node of agent 0 (the root included) is the largest of
\* its children's values.
C13_ChanceIsMean ==
    \A nd \in exResult.nodes :
        nd.kids # << >> =>
            /\ KidsAreChildren(game, exResult.nodes, nd)
            /\ nd.agent >= 1 =>
                   RatEq(nd.val, RatDivInt(RatSum(nd.kids),
                                           Len(GetLegalActions(game, nd.gs, nd.agent))))
            /\ nd.agent = 0 =>
                   /\ \A i \in 1..Len(nd.kids) : ~RatLess(nd.val, nd.kids[i])
                   /\ \E i \in 1..Len(nd.kids) : RatEq(nd.val, nd.kids[i])

\* C13 witness: the root has two actions, and a chance node with two children
\* of different values got a value strictly between them.
C13_Witness ==
    /\ exResult.kind = "action"
    /\ game.branch[1] = 2
    /\ \E nd \in exResult.nodes :
           /\ nd.agent >= 1
           /\ Len(nd.kids) = 2
           /\ RatLess(nd.kids[1], nd.val)
           /\ RatLess(nd.val, nd.kids[2])

\* The values the root's loop sees for the actions of agent 0.
MinimaxRootValue(G, a) ==
    MM_minValue(G, GenerateSuccessor(G, RootState, 0, a), G.depth, 1).val
ExpectimaxRootValue(G, a) ==
    EX_value(G, GenerateSuccessor(G, RootState, 0, a),
             EX_nextDepth(G, G.depth, 0), 1 % G.n).val

RootActions(G) == 1..Len(GetLegalActions(G, RootState, 0))

\* C14: at the root of MinimaxAgent, AlphaBetaAgent and ExpectimaxAgent the
\* action returned attains the largest value, and no action before it in the
\* order of getLegalActions(0) attains it.
C14_FirstBestAction ==
    /\ \A r \in {mmResult, abResult} :
           r.kind = "action" =>
               /\ \A a \in RootActions(game) :
                      MinimaxRootValue(game, a) <= MinimaxRootValue(game, r.val)
               /\ \A a \in RootActions(game) :
                      a < r.val => MinimaxRootValue(game, a) < MinimaxRootValue(game, r.val)
    /\ exResult.kind = "action" =>
           /\ \A a \in RootActions(game) :
                  ~RatLess(ExpectimaxRootValue(game, exResult.val),
                           ExpectimaxRootValue(game, a))
           /\ \A a \in RootActions(game) :
                  a < exResult.val =>
                      RatLess(ExpectimaxRootValue(game, a),
                              ExpectimaxRootValue(game, exResult.val))

\* C14 witness: all three agents have answered at a root whose two actions tie
\* for the largest value although the evaluation is not constant.
C14_Witness ==
    /\ mmResult.kind = "action"
    /\ abResult.kind = "action"
    /\ exResult.kind = "action"
    /\ game.branch[1] = 2
    /\ MinimaxRootValue(game, 1) = MinimaxRootValue(game, 2)
    /\ RatEq(ExpectimaxRootValue(game, 1), ExpectimaxRootValue(game, 2))
    /\ \E i \in DOMAIN game.eval, j \in DOMAIN game.eval : game.eval[i] # game.eval[j]

\* The states on the way to gs, gs itself excluded: generateSuccessor was
\* called on each of them to reach gs.
StatesBefore(gs) ==
    {[path |-> SubSeq(gs.path, 1, k), movers |-> SubSeq(gs.movers, 1, k)] :
         k \in 0..(Len(gs.path) - 1)}

AgentZeroMoves(gs) == Cardinality({i \in 1..Len(gs.movers) : gs.movers[i] = 0})

\* No successor was generated from a win or a loss; agent 0, whose moves open
\* the rounds, moved at most treeDepth times (none at remaining depth 0); and
\* no state lies deeper than treeDepth * N moves.
SearchStaysInBounds(G, evald) ==
    \A gs \in evald :
        /\ \A before \in StatesBefore(gs) : ~IsWin(G, before) /\ ~IsLose(G, before)
        /\ AgentZeroMoves(gs) <= G.depth
        /\ Len(gs.path) <= G.depth * G.n

\* C27: MinimaxAgent, AlphaBetaAgent and ExpectimaxAgent never generate a
\* successor of a win or a loss nor at remaining depth 0, and a search with
\* tree depth d and N agents returns after going at most d * N moves deep.
C27_SearchIsBounded ==
    /\ SearchStaysInBounds(game, mmResult.evald)
    /\ SearchStaysInBounds(game, abResult.evald)
    /\ SearchStaysInBounds(game, exResult.evald)
    /\ \A nd \in exResult.nodes :
           nd.kids # << >> =>
               /\ nd.depth > 0
               /\ ~IsWin(game, nd.gs) /\ ~IsLose(game, nd.gs)

\* C27 witness: all three searches have returned on a game of depth 2 with a
\* win two moves below the root; the win was evaluated by each of them, and
\* beside it the tree was searched down to the last move.
C27_Witness ==
    /\ mmResult.kind = "action" /\ abResult.kind = "action" /\ exResult.kind = "action"
    /\ game.depth = 2 /\ game.term = 2
    /\ game.branch[1] = 2
    /\ \A r \in {mmResult.evald, abResult.evald, exResult.evald} :
           \E gs \in r : IsWin(game, gs)
    /\ \E gs \in exResult.evald : Len(gs.path) = game.depth * game.n
    /\ \E gs \in mmResult.evald : AgentZeroMoves(gs) = game.depth

\* C28: whatever the tree depth and the evaluation function, getAction of
\* MinimaxAgent, AlphaBetaAgent and ExpectimaxAgent returns one of the legal
\* actions of agent 0 at the root (which has some), never an evaluation
\* value and never None.
C28_ReturnsLegalAction ==
    /\ mmResult.kind # "pending" =>
           (mmResult.kind = "action" /\ mmResult.val \in RootActions(game))
    /\ abResult.kind # "pending" =>
           (abResult.kind = "action" /\ abResult.val \in RootActions(game))
    /\ exResult.kind # "pending" =>
           (exResult.kind = "action" /\ exResult.val \in RootActions(game))

(***************************************************************************)
(* Part IV.  CornersProblem, cornersHeuristic and foodHeuristic            *)
(*           (pacai/student/searchAgents.py)                               *)
(***************************************************************************)

\* Bounds of the grid model.
MaxWalls == 1
MaxFood == 3

\* The layout is 5 by 5 with a wall all around: top = height - 2, right = width - 2.
Top == 3
Right == 3

GridCells == {<<x, y>> : x \in 1..Right, y \in 1..Top}

\* self.corners, in the order of line 64.
Corners == << <<1, 1>>, <<1, Top>>, <<Right, 1>>, <<Right, Top>> >>
CornerCells == {Corners[i] : i \in 1..Len(Corners)}

\* Directions.CARDINAL with the vectors of Actions.directionToVector.
Cardinal ==
    << [action |-> "North", dx |-> 0, dy |-> 1], [action |-> "East", dx |-> 1, dy |-> 0],
       [action |-> "South", dx |-> 0, dy |-> 0 - 1], [action |-> "West", dx |-> 0 - 1, dy |-> 0] >>

\* self.walls[x][y]: the border and the wall cells inside it.
IsWall(w, c) == c \notin GridCells \/ c \in w

\* distance.manhattan
Manhattan(a, b) == Abs(a[1] - b[1]) + Abs(a[2] - b[2])

Neighbours(w, c) ==
    {n \in GridCells : ~IsWall(w, n) /\ Manhattan(c, n) = 1}

RECURSIVE ReachFrom(_, _, _)
ReachFrom(w, frontier, seen) ==
    IF frontier = {} THEN seen
    ELSE LET next == (UNION {Neighbours(w, c) : c \in frontier}) \ seen
         IN ReachFrom(w, next, seen \cup next)

\* Every free cell can be walked to from every other one.
Connected(w) == ReachFrom(w, {Corners[1]}, {Corners[1]}) = GridCells \ w

\* The layouts: at most MaxWalls wall cells, none of them on a corner.
WallSets ==
    {w \in SUBSET (GridCells \ CornerCells) : Cardinality(w) <= MaxWalls /\ Connected(w)}

\* distance.maze: the number of steps of a shortest walk from a to b.
RECURSIVE MazeWithin(_, _, _, _, _)
MazeWithin(w, frontier, seen, b, k) ==
    IF b \in frontier THEN k
    ELSE IF frontier = {} THEN 0
    ELSE LET next == (UNION {Neighbours(w, c) : c \in frontier}) \ seen
         IN MazeWithin(w, next, seen \cup next, b, k + 1)

Maze(w, a, b) == MazeWithin(w, {a}, {a}, b, 0)

\* ---- CornersProblem ----
CornersStartingState(position) ==
    [coords |-> position, corners |-> <<FALSE, FALSE, FALSE, FALSE>>]

CornersIsGoal(st) == \A i \in 1..Len(st.corners) : st.corners[i]

\* self.corners.index(c) for a corner cell c.
CornerIndex(c) == CHOOSE i \in 1..Len(Corners) : Corners[i] = c

\* The successor of st in direction d (lines 90-101).
CornersSuccessor(st, d) ==
    LET nextState == <<st.coords[1] + d.dx, st.coords[2] + d.dy>>
        nextCorners == IF nextState \in CornerCells
                       THEN [st.corners EXCEPT ![CornerIndex(nextState)] = TRUE]
                       ELSE st.corners
    IN [state |-> [coords |-> nextState, corners |-> nextCorners],
        action |-> d.action, cost |-> 1]

CornersSuccessorStates(w, st) ==
    LET open == SelectSeq(Cardinal,
                    LAMBDA d : ~IsWall(w, <<st.coords[1] + d.dx, st.coords[2] + d.dy>>))
    IN [i \in 1..Len(open) |-> CornersSuccessor(st, open[i])]

\* The corners not yet visited, in the order of problem.corners (lines 152-153).
RemainingCorners(st) ==
    LET idx == SelectSeq([i \in 1..Len(Corners) |-> i], LAMBDA i : ~st.corners[i])
    IN [k \in 1..Len(idx) |-> Corners[idx[k]]]

\* min(..., key = distance): the first of the nearest corners.
NearestIndex(reference, remaining) ==
    CHOOSE i \in 1..Len(remaining) :
        /\ \A j \in 1..Len(remaining) :
               Manhattan(reference, remaining[i]) <= Manhattan(reference, remaining[j])
        /\ \A j \in 1..(i - 1) :
               Manhattan(reference, remaining[j]) > Manhattan(reference, remaining[i])

\* The while loop of lines 160-164.
RECURSIVE CornersChain(_, _, _)
CornersChain(reference, remaining, heuristic) ==
    IF remaining = << >> THEN heuristic
    ELSE LET i == NearestIndex(reference, remaining)
         IN CornersChain(remaining[i], RemoveAt(remaining, i),
                         heuristic + Manhattan(reference, remaining[i]))

cornersHeuristic(st) == CornersChain(st.coords, RemainingCorners(st), 0)

CornersMove ==
    \E i \in 1..Len(CornersSuccessorStates(walls, cstate)) :
        /\ cstate' = CornersSuccessorStates(walls, cstate)[i].state
        /\ hCorners' = cornersHeuristic(cstate')
        /\ UNCHANGED <<walls, fstate, fprev, hFood, cds, gsVars, searchVars, treeVars, mdpVars>>

CornersNext ==
    \/ CornersMove

\* ---- foodHeuristic ----
\* foodGrid.asList(): the food cells, column by column.
CellOrder == [k \in 1..(Right * Top) |-> <<((k - 1) \div Top) + 1, ((k - 1) % Top) + 1>>]

FoodList(food) == SelectSeq(CellOrder, LAMBDA c : c \in food)

\* max(..., key = distance) over (food1, food2): the first of the farthest pairs.
FarthestPair(fl) ==
    LET D(q) == Manhattan(fl[q[1]], fl[q[2]])
        before(q, r) == q[1] < r[1] \/ (q[1] = r[1] /\ q[2] < r[2])
        pairs == (1..Len(fl)) \X (1..Len(fl))
    IN CHOOSE q \in pairs :
           /\ \A r \in pairs : D(r) <= D(q)
           /\ \A r \in pairs : before(r, q) => D(r) < D(q)

foodHeuristicFartherEnd(w, st) ==
    LET fl == FoodList(st.food)
        q == FarthestPair(fl)
    IN IF fl = << >> THEN 0
       ELSE Manhattan(fl[q[1]], fl[q[2]])
                + Max2(Maze(w, st.position, fl[q[1]]), Maze(w, st.position, fl[q[2]]))

foodHeuristic(w, st) ==
    LET fl == FoodList(st.food)
        q == FarthestPair(fl)
    IN IF fl = << >> THEN 0
       ELSE Manhattan(fl[q[1]], fl[q[2]])
                + Min2(Maze(w, st.position, fl[q[1]]), Maze(w, st.position, fl[q[2]]))

\* The food search problem: a step to a free neighbour eats the food there.
FoodSuccessorStates(w, st) ==
    LET open == SelectSeq(Cardinal,
                    LAMBDA d : ~IsWall(w, <<st.position[1] + d.dx, st.position[2] + d.dy>>))
    IN [i \in 1..Len(open) |->
            LET n == <<st.position[1] + open[i].dx, st.position[2] + open[i].dy>>
            IN [state |-> [position |-> n, food |-> st.food \ {n}],
                action |-> open[i].action, cost |-> 1]]

FoodMove ==
    \E i \in 1..Len(FoodSuccessorStates(walls, fstate)) :
        /\ fstate' = FoodSuccessorStates(walls, fstate)[i].state
        /\ fprev' = fstate
        /\ hFood' = foodHeuristic(walls, fstate')
        /\ UNCHANGED <<walls, cstate, hCorners, cds, gsVars, searchVars, treeVars, mdpVars>>

FoodNext ==
    \/ FoodMove

\* ---- ClosestDotSearchAgent ----
\* Bounds of the closest-dot model.
MaxDotWalls == 2
MaxSegments == 4

\* PositionSearchProblem.successorStates: the free neighbours, in the order
\* of Directions.CARDINAL.
PositionSuccessorStates(w, position) ==
    LET open == SelectSeq(Cardinal,
                    LAMBDA d : ~IsWall(w, <<position[1] + d.dx, position[2] + d.dy>>))
    IN [i \in 1..Len(open) |->
            [state |-> <<position[1] + open[i].dx, position[2] + open[i].dy>>,
             action |-> open[i].action, cost |-> 1]]

\* AnyFoodSearchProblem.isGoal: self.food[x][y].
AnyFoodIsGoal(food, position) == position \in food

\* genericSearch lines 30-32 on positions: the actions from the goal back to
\* the start.
\* The arguments of the recursive operators below are bound by a set
\* constructor, so that each is evaluated once per call.
TheOne(S) == CHOOSE r \in S : TRUE

RECURSIVE DotBackWalk(_, _, _, _)
DotBackWalk(path, state0, start, acc0) ==
    TheOne({ IF state = start THEN acc
             ELSE DotBackWalk(path, path[state].pred, start,
                              Append(acc, path[state].action))
             : state \in {state0}, acc \in {acc0} })

\* genericSearch lines 40-51 with a Queue: push every successor at index 0,
\* record the back-pointer of a state at its first push.
RECURSIVE DotPushSuccessors(_, _, _, _)
DotPushSuccessors(st0, from, currCost, succs0) ==
    TheOne({ IF succs = << >> THEN st
             ELSE LET sc == succs[1]
                      st1 == [frontier |-> <<[state |-> sc.state,
                                              cost |-> sc.cost + currCost]>>
                                               \o st.frontier,
                              path |-> IF sc.state \in DOMAIN st.path THEN st.path
                                       ELSE (sc.state :> [pred |-> from,
                                                          action |-> sc.action])
                                                @@ st.path,
                              visited |-> st.visited]
                  IN DotPushSuccessors(st1, from, currCost, Tail(succs))
             : st \in {st0}, succs \in {succs0} })

\* genericSearch lines 24-54 with a Queue on AnyFoodSearchProblem.
RECURSIVE DotSearchLoop(_, _, _, _)
DotSearchLoop(w, food, start, st0) ==
    TheOne({ IF st.frontier = << >> THEN << >>
             ELSE LET e == st.frontier[Len(st.frontier)]
                      popped == [st EXCEPT !.frontier = SubSeq(@, 1, Len(@) - 1)]
                  IN IF AnyFoodIsGoal(food, e.state)
                     THEN Reverse(DotBackWalk(st.path, e.state, start, << >>))
                     ELSE IF e.state \notin st.visited
                          THEN DotSearchLoop(w, food, start,
                                   DotPushSuccessors(
                                       [popped EXCEPT !.visited = @ \cup {e.state}],
                                       e.state, e.cost,
                                       PositionSuccessorStates(w, e.state)))
                          ELSE DotSearchLoop(w, food, start, popped)
             : st \in {st0} })

\* findPathToClosestDot: bfs(AnyFoodSearchProblem(gameState)).
findPathToClosestDot(w, gameState) ==
    DotSearchLoop(w, gameState.food, gameState.position,
                  [frontier |-> <<[state |-> gameState.position, cost |-> 0]>>,
                   path |-> << >>, visited |-> {}])

\* getLegalActions() of Pacman: the directions that do not lead into a wall,
\* and Stop.
PacmanLegalActions(w, gameState) ==
    {Cardinal[i].action : i \in {k \in 1..Len(Cardinal) :
        ~IsWall(w, <<gameState.position[1] + Cardinal[k].dx,
                     gameState.position[2] + Cardinal[k].dy>>)}} \cup {"Stop"}

\* generateSuccessor(0, action) in a game without ghosts: Pacman moves and
\* eats the food of the cell moved to.
PacmanSuccessor(gameState, action) ==
    LET d == Cardinal[CHOOSE i \in 1..Len(Cardinal) : Cardinal[i].action = action]
        n == <<gameState.position[1] + d.dx, gameState.position[2] + d.dy>>
    IN [position |-> n, food |-> gameState.food \ {n}]

\* The for loop of lines 235-241: currentState after the segment, and whether
\* the exception of line 238 was raised.
RECURSIVE FollowSegment(_, _, _)
FollowSegment(w, state0, segment0) ==
    TheOne({ IF segment = << >> THEN [state |-> currentState, raised |-> FALSE]
             ELSE IF segment[1] \notin PacmanLegalActions(w, currentState)
                  THEN [state |-> currentState, raised |-> TRUE]
                  ELSE FollowSegment(w, PacmanSuccessor(currentState, segment[1]),
                                     Tail(segment))
             : currentState \in {state0}, segment \in {segment0} })

\* One iteration of the while loop of registerInitialState (lines 231-241).
DotsIteration ==
    /\ cds.pc = "loop"
    /\ Cardinality(cds.cur.food) > 0
    /\ cds.rounds < MaxSegments
    /\ \E nextPathSegment \in {findPathToClosestDot(walls, cds.cur)} :
         \E after \in {FollowSegment(walls, cds.cur, nextPathSegment)} :
            cds' = [cds EXCEPT !.actions = @ \o nextPathSegment,
                               !.cur = after.state,
                               !.rounds = @ + 1,
                               !.pc = IF after.raised THEN "raised" ELSE "loop"]
    /\ UNCHANGED <<walls, cstate, fstate, fprev, hCorners, hFood,
                   gsVars, searchVars, treeVars, mdpVars>>

\* The loop test fails (line 231): registerInitialState returns.
DotsReturn ==
    /\ cds.pc = "loop"
    /\ Cardinality(cds.cur.food) = 0
    /\ cds' = [cds EXCEPT !.pc = "done"]
    /\ UNCHANGED <<walls, cstate, fstate, fprev, hCorners, hFood,
                   gsVars, searchVars, treeVars, mdpVars>>

DotsNext ==
    \/ DotsIteration
    \/ DotsReturn

(***************************************************************************)
(* Claims about the heuristics                                             *)
(***************************************************************************)

\* The cost of a shortest path from a set of CornersProblem states to a goal.
RECURSIVE CornersCostWithin(_, _, _, _)
CornersCostWithin(w, frontier, seen, k) ==
    IF \E st \in frontier : CornersIsGoal(st) THEN k
    ELSE IF frontier = {} THEN Infinity
    ELSE LET next == (UNION {{CornersSuccessorStates(w, st)[i].state :
                                  i \in 1..Len(CornersSuccessorStates(w, st))} :
                             st \in frontier}) \ seen
         IN CornersCostWithin(w, next, seen \cup next, k + 1)

CornersTrueCost(w, st) == CornersCostWithin(w, {st}, {st}, 0)

\* C17: cornersHeuristic never exceeds the cost of a shortest path to a goal
\* state, and it is 0 at goal states.
C17_CornersAdmissible ==
    /\ hCorners <= CornersTrueCost(walls, cstate)
    /\ CornersIsGoal(cstate) => hCorners = 0

\* C18: foodHeuristic is 0 when no food remains, and across every step of cost
\* 1, eating or not, it drops by at most 1.
C18_FoodConsistent ==
    [][/\ hFood <= 1 + hFood'
       /\ fstate.food = {} => hFood = 0
       /\ fstate'.food = {} => hFood' = 0]_vars

\* C18 witness: in a layout with a wall, the last step ate one end of the
\* farthest pair among three food cells, and the heuristic went down by 1.
C18_Witness ==
    /\ walls # {}
    /\ Cardinality(fprev.food) = 3
    /\ fstate.food # fprev.food
    /\ LET fl == FoodList(fprev.food)
           q == FarthestPair(fl)
       IN fstate.position \in {fl[q[1]], fl[q[2]]}
    /\ foodHeuristic(walls, fprev) = hFood + 1

\* C29: registerInitialState of ClosestDotSearchAgent returns for every
\* initial game state; every iteration of its loop leaves less food than it
\* found; and at its return the accumulated actions, taken from the initial
\* state, are all legal and leave no food.
C29_ClosestDotTerminates ==
    /\ [][cds'.rounds = cds.rounds + 1 =>
             Cardinality(cds'.cur.food) < Cardinality(cds.cur.food)]_vars
    /\ <>(cds.pc = "done")
    /\ [](cds.pc = "done" =>
             LET run == FollowSegment(walls, cds.init, cds.actions)
             IN ~run.raised /\ run.state.food = {})

(***************************************************************************)
(* Part V.  ValueIterationAgent (pacai/student/valueIterationAgent.py)     *)
(*          and QLearningAgent (pacai/student/qlearningAgents.py)          *)
(***************************************************************************)

\* Bounds of the MDP model.
MaxReward == 1
MaxIters == 2
MaxUpdates == 2

\* The MDP has the states 1, 2 and a terminal state without actions; state 1
\* has two actions and state 2 has one.
TerminalState == 3
MdpStates == <<1, 2, TerminalState>>
MdpStateSet == {MdpStates[i] : i \in 1..Len(MdpStates)}

\* mdp.getPossibleActions(state), also the agent's getLegalActions(state).
PossibleActions(s) == IF s = 1 THEN <<1, 2>> ELSE IF s = 2 THEN <<1>> ELSE << >>

StateActionPairs ==
    {p \in MdpStateSet \X (1..2) : p[2] <= Len(PossibleActions(p[1]))}

\* The action returned when there is none (None).
NoAction == 0

Half == [num |-> 1, den |-> 2]
RatMul(a, b) == RatNorm(a.num * b.num, a.den * b.den)
RatSub(a, b) == RatNorm(a.num * b.den - b.num * a.den, a.den * b.den)

\* Transition lists: one next state for sure, or two next states with 1/2 each.
SureTransitions == {<< [next |-> t, prob |-> Rat(1)] >> : t \in MdpStateSet}
SplitTransitions ==
    {<< [next |-> p[1], prob |-> Half], [next |-> p[2], prob |-> Half] >> :
        p \in {q \in MdpStateSet \X MdpStateSet : q[1] < q[2]}}

TransitionLists(s) ==
    IF s = 1 THEN SureTransitions \cup SplitTransitions ELSE SureTransitions

DiscountRates == {Half, Rat(1)}

\* mdp.getTransitionStatesAndProbs and mdp.getReward (the reward is paid for
\* the state arrived in).
GetTransitionStatesAndProbs(m, s, a) == m.trans[<<s, a>>]
GetReward(m, s, a, nextState) == m.reward[nextState]

\* ---- ValueIterationAgent ----
VI_getValue(values, s) == IF s \in DOMAIN values THEN values[s] ELSE Rat(0)

RECURSIVE VI_sumTransitions(_, _, _, _, _)
VI_sumTransitions(m, values, s, a, transitions) ==
    IF transitions = << >> THEN Rat(0)
    ELSE LET t == Head(transitions)
         IN RatAdd(RatMul(t.prob,
                          RatAdd(Rat(GetReward(m, s, a, t.next)),
                                 RatMul(m.discount, VI_getValue(values, t.next)))),
                   VI_sumTransitions(m, values, s, a, Tail(transitions)))

VI_getQValue(m, values, s, a) ==
    VI_sumTransitions(m, values, s, a, GetTransitionStatesAndProbs(m, s, a))

\* max(list) and max(list, key = ...): the first of the largest elements.
FirstMaxIndex(q) ==
    CHOOSE i \in 1..Len(q) :
        /\ \A j \in 1..Len(q) : ~RatLess(q[i], q[j])
        /\ \A j \in 1..(i - 1) : RatLess(q[j], q[i])

VI_getPolicy(m, values, s) ==
    LET actions == PossibleActions(s)
        qs == [i \in 1..Len(actions) |-> VI_getQValue(m, values, s, actions[i])]
    IN IF Len(actions) = 0 THEN NoAction ELSE actions[FirstMaxIndex(qs)]

\* The state of __init__ when the loops are first reached.
VI_initial(iters) ==
    [values |-> [s \in MdpStateSet |-> Rat(0)],
     temp |-> << >>,
     idx |-> 1,
     sweep |-> 0,
     iters |-> iters,
     pc |-> IF iters = 0 THEN "done" ELSE "sweep"]

VI_updateStateInPlace(m, v) ==
    LET state == MdpStates[v.idx]
        actions == PossibleActions(state)
        seen == v.temp @@ v.values
        qs == [i \in 1..Len(actions) |-> VI_getQValue(m, seen, state, actions[i])]
    IN IF Len(actions) > 0
       THEN [v EXCEPT !.temp = (state :> qs[FirstMaxIndex(qs)]) @@ @, !.idx = @ + 1]
       ELSE [v EXCEPT !.idx = @ + 1]

\* Lines 49-51: one pass of the inner loop, for the state at position idx.
VI_updateState(m, v) ==
    LET state == MdpStates[v.idx]
        actions == PossibleActions(state)
        qs == [i \in 1..Len(actions) |-> VI_getQValue(m, v.values, state, actions[i])]
    IN IF Len(actions) > 0
       THEN [v EXCEPT !.temp = (state :> qs[FirstMaxIndex(qs)]) @@ @, !.idx = @ + 1]
       ELSE [v EXCEPT !.idx = @ + 1]

\* Line 52 and the head of the outer loop: self.values = temp, and temp = {}
\* for the next sweep.
VI_endSweep(v) ==
    [v EXCEPT !.values = v.temp, !.temp = << >>, !.idx = 1, !.sweep = @ + 1,
              !.pc = IF v.sweep + 1 = v.iters THEN "done" ELSE "sweep"]

VIUpdateState ==
    /\ agentKind = "vi"
    /\ vi.pc = "sweep"
    /\ vi.idx <= Len(MdpStates)
    /\ vi' = VI_updateState(mdp, vi)
    /\ UNCHANGED <<mdp, agentKind, ql, aq, gsVars, searchVars, treeVars, gridVars>>

VIEndSweep ==
    /\ agentKind = "vi"
    /\ vi.pc = "sweep"
    /\ vi.idx > Len(MdpStates)
    /\ vi' = VI_endSweep(vi)
    /\ UNCHANGED <<mdp, agentKind, ql, aq, gsVars, searchVars, treeVars, gridVars>>

\* ---- QLearningAgent ----
\* getAlpha(): the learning rate.
Alpha == Half

QL_getQValue(q, s, a) == IF <<s, a>> \in DOMAIN q THEN q[<<s, a>>] ELSE Rat(0)

\* The for loop of getValueActionPair: bestAction = (value, action).
RECURSIVE QL_bestLoop(_, _, _, _)
QL_bestLoop(q, s, actions, bestAction) ==
    IF actions = << >> THEN bestAction
    ELSE LET val == QL_getQValue(q, s, Head(actions))
         IN IF RatLess(bestAction.value, val)
            THEN QL_bestLoop(q, s, Tail(actions), [value |-> val, action |-> Head(actions)])
            ELSE QL_bestLoop(q, s, Tail(actions), bestAction)

\* A value below every Q-value that can arise: -float('inf').
QNegInf == Rat(0 - (MaxReward * (MaxUpdates + 1) + 1))

QL_getValueActionPairNoGuard(q, s) ==
    QL_bestLoop(q, s, PossibleActions(s), [value |-> QNegInf, action |-> NoAction])

QL_getValueActionPair(q, s) ==
    IF PossibleActions(s) = << >> THEN [value |-> Rat(0), action |-> NoAction]
    ELSE QL_bestLoop(q, s, PossibleActions(s), [value |-> QNegInf, action |-> NoAction])

QL_getValue(q, s) == QL_getValueActionPair(q, s).value
QL_getPolicy(q, s) == QL_getValueActionPair(q, s).action

\* getAction: everything it can return, whichever way the coin falls.
QL_getAction(q, s) ==
    LET actions == PossibleActions(s)
    IN IF Len(actions) = 0 THEN {NoAction}
       ELSE {actions[i] : i \in 1..Len(actions)} \cup {QL_getPolicy(q, s)}

QL_updateFromState(m, q, s, a, nextState, reward) ==
    (<<s, a>> :> RatAdd(RatMul(RatSub(Rat(1), Alpha), QL_getQValue(q, s, a)),
                        RatMul(Alpha, RatAdd(Rat(reward),
                                             RatMul(m.discount, QL_getValue(q, s))))))
        @@ q

\* update: qValues[(state, action)] = (1 - alpha) * Q + alpha * (reward + discount * V').
QL_update(m, q, s, a, nextState, reward) ==
    (<<s, a>> :> RatAdd(RatMul(RatSub(Rat(1), Alpha), QL_getQValue(q, s, a)),
                        RatMul(Alpha, RatAdd(Rat(reward),
                                             RatMul(m.discount, QL_getValue(q, nextState))))))
        @@ q

\* The environment reports a transition of the MDP to the agent.
QUpdate ==
    /\ agentKind = "ql"
    /\ ql.nUpdates < MaxUpdates
    /\ \E p \in StateActionPairs :
           \E i \in 1..Len(GetTransitionStatesAndProbs(mdp, p[1], p[2])) :
               LET nextState == GetTransitionStatesAndProbs(mdp, p[1], p[2])[i].next
               IN ql' = [qValues |-> QL_update(mdp, ql.qValues, p[1], p[2], nextState,
                                               GetReward(mdp, p[1], p[2], nextState)),
                         nUpdates |-> ql.nUpdates + 1,
                         last |-> <<p[1], p[2], nextState>>]
    /\ UNCHANGED <<mdp, agentKind, vi, aq, gsVars, searchVars, treeVars, gridVars>>

\* ---- ApproximateQAgent ----
\* A feature dictionary is the sequence of its items, in the order of the
\* dictionary; the features are 1 and 2.
Features == {1, 2}
FeatureDicts ==
    {<< >>,
     << [feature |-> 1, value |-> 1] >>,
     << [feature |-> 2, value |-> 1] >>,
     << [feature |-> 1, value |-> 1], [feature |-> 2, value |-> 1] >>,
     << [feature |-> 2, value |-> 2], [feature |-> 1, value |-> 1] >>}

\* self.featExtractor.getFeatures(self, state, action)
GetFeatures(ex, s, a) == ex[<<s, a>>]

AQ_getWeights(w, feature) == IF feature \in DOMAIN w THEN w[feature] ELSE Rat(0)

RECURSIVE AQ_dot(_, _)
AQ_dot(w, features) ==
    IF features = << >> THEN Rat(0)
    ELSE RatAdd(RatMul(Rat(Head(features).value), AQ_getWeights(w, Head(features).feature)),
                AQ_dot(w, Tail(features)))

AQ_getQValue(ex, w, s, a) == AQ_dot(w, GetFeatures(ex, s, a))

\* -float('inf'): below every number under RatLess.
AQNegInf == [num |-> 0 - 1, den |-> 0]

\* QLearningAgent.getValueActionPair, with getQValue of ApproximateQAgent.
RECURSIVE AQ_bestLoop(_, _, _, _, _)
AQ_bestLoop(ex, w, s, actions, bestAction) ==
    IF actions = << >> THEN bestAction
    ELSE LET val == AQ_getQValue(ex, w, s, Head(actions))
         IN IF RatLess(bestAction.value, val)
            THEN AQ_bestLoop(ex, w, s, Tail(actions), [value |-> val, action |-> Head(actions)])
            ELSE AQ_bestLoop(ex, w, s, Tail(actions), bestAction)

AQ_getValueActionPair(ex, w, s) ==
    IF PossibleActions(s) = << >> THEN [value |-> Rat(0), action |-> NoAction]
    ELSE AQ_bestLoop(ex, w, s, PossibleActions(s), [value |-> AQNegInf, action |-> NoAction])

AQ_getValue(ex, w, s) == AQ_getValueActionPair(ex, w, s).value

\* The for loop of update: self.weights[feature] = getWeights(feature) + correction * value.
RECURSIVE AQ_updateLoop(_, _, _)
AQ_updateLoop(w, items, correction) ==
    IF items = << >> THEN w
    ELSE AQ_updateLoop(
             (Head(items).feature :>
                  RatAdd(AQ_getWeights(w, Head(items).feature),
                         RatMul(correction, Rat(Head(items).value)))) @@ w,
             Tail(items), correction)

\* A loop that computes the correction anew for every feature, from the
\* weights as they are by then.
RECURSIVE AQ_updateLoopRecompute(_, _, _, _, _, _, _, _)
AQ_updateLoopRecompute(m, ex, w, items, s, a, nextState, reward) ==
    IF items = << >> THEN w
    ELSE LET newQVal == RatAdd(Rat(reward), RatMul(m.discount, AQ_getValue(ex, w, nextState)))
             correction == RatMul(Alpha, RatSub(newQVal, AQ_getQValue(ex, w, s, a)))
         IN AQ_updateLoopRecompute(m, ex,
                (Head(items).feature :>
                     RatAdd(AQ_getWeights(w, Head(items).feature),
                            RatMul(correction, Rat(Head(items).value)))) @@ w,
                Tail(items), s, a, nextState, reward)

AQ_updateRecompute(m, ex, w, s, a, nextState, reward) ==
    AQ_updateLoopRecompute(m, ex, w, GetFeatures(ex, s, a), s, a, nextState, reward)

\* ApproximateQAgent.update: the weights after the call.
AQ_update(m, ex, w, s, a, nextState, reward) ==
    LET features == GetFeatures(ex, s, a)
        newQVal == RatAdd(Rat(reward), RatMul(m.discount, AQ_getValue(ex, w, nextState)))
        correction == RatMul(Alpha, RatSub(newQVal, AQ_getQValue(ex, w, s, a)))
    IN AQ_updateLoop(w, features, correction)

\* The environment reports a transition and its reward to the agent.
AQUpdate ==
    /\ agentKind = "aq"
    /\ aq.nUpdates < MaxUpdates
    /\ \E p \in StateActionPairs, nextState \in MdpStateSet, reward \in 0..MaxReward :
           aq' = [aq EXCEPT
                     !.weights = AQ_update(mdp, aq.extractor, aq.weights, p[1], p[2],
                                           nextState, reward),
                     !.before = aq.weights,
                     !.nUpdates = @ + 1,
                     !.last = [state |-> p[1], action |-> p[2],
                               nextState |-> nextState, reward |-> reward]]
    /\ UNCHANGED <<mdp, agentKind, vi, ql, gsVars, searchVars, treeVars, gridVars>>

MdpNext ==
    \/ VIUpdateState
    \/ VIEndSweep
    \/ QUpdate

(***************************************************************************)
(* Claims about the MDP agents                                             *)
(***************************************************************************)

\* The Bellman backup of a value table at a state: the largest, over the
\* legal actions, of the expected reward plus discounted value.
Backup(m, V, s) ==
    LET actions == PossibleActions(s)
        Q(a) == RatSum([i \in 1..Len(m.trans[<<s, a>>]) |->
                    RatMul(m.trans[<<s, a>>][i].prob,
                           RatAdd(Rat(m.reward[m.trans[<<s, a>>][i].next]),
                                  RatMul(m.discount,
                                         VI_getValue(V, m.trans[<<s, a>>][i].next))))])
        best == CHOOSE i \in 1..Len(actions) :
                    \A j \in 1..Len(actions) : ~RatLess(Q(actions[i]), Q(actions[j]))
    IN IF actions = << >> THEN Rat(0) ELSE Q(actions[best])

\* C19: value iteration starts from all values 0; within a sweep the value
\* table is not written and each new value is the Bellman backup of the table
\* of the previous sweep; at the end of the sweep the new values become the
\* table; there are iters sweeps.
C19_SynchronousSweeps ==
    [][agentKind = "vi" =>
          /\ vi.sweep = 0 => \A s \in MdpStateSet : VI_getValue(vi.values, s) = Rat(0)
          /\ vi'.idx = vi.idx + 1 =>
                 /\ vi'.values = vi.values
                 /\ \A s \in DOMAIN vi'.temp :
                        RatEq(vi'.temp[s], Backup(mdp, vi.values, s))
          /\ vi'.sweep = vi.sweep + 1 =>
                 \A s \in MdpStateSet :
                     RatEq(VI_getValue(vi'.values, s), Backup(mdp, vi.values, s))
          /\ vi'.pc = "done" => vi'.sweep = vi'.iters]_vars

\* C19 witness: two sweeps are done on an MDP in which state 2 leads to state
\* 1, whose value changed in the second sweep and differs from the
\* value of state 2.
C19_Witness ==
    /\ agentKind = "vi"
    /\ vi.pc = "done"
    /\ vi.sweep = 2
    /\ mdp.trans[<<2, 1>>][1].next = 1
    /\ RatLess(Rat(0), VI_getValue(vi.values, 1))
    /\ ~RatEq(VI_getValue(vi.values, 1), VI_getValue(vi.values, 2))
    /\ ~RatEq(VI_getValue(vi.values, 1), Backup(mdp, [s \in MdpStateSet |-> Rat(0)], 1))

\* C20: for the state without legal actions, whatever was learned, getValue
\* of both agents returns 0.0, getPolicy of both returns None, and
\* QLearningAgent.getAction returns None.
C20_TerminalDefaults ==
    /\ agentKind = "vi" =>
           /\ VI_getValue(vi.values, TerminalState) = Rat(0)
           /\ VI_getPolicy(mdp, vi.values, TerminalState) = NoAction
    /\ agentKind = "ql" =>
           /\ QL_getValue(ql.qValues, TerminalState) = Rat(0)
           /\ QL_getPolicy(ql.qValues, TerminalState) = NoAction
           /\ QL_getAction(ql.qValues, TerminalState) = {NoAction}

\* C20 witness: the Q-learning agent has just seen a rewarded transition into
\* the terminal state, after an earlier update, and has learned from it.
C20_Witness ==
    /\ agentKind = "ql"
    /\ ql.nUpdates = 2
    /\ ql.last[3] = TerminalState
    /\ mdp.reward[TerminalState] > 0
    /\ RatLess(Rat(0), QL_getQValue(ql.qValues, ql.last[1], ql.last[2]))

\* The largest Q-value of a table over the legal actions of a state, unseen
\* pairs counting as 0; 0 for a state without legal actions.
RefMaxQ(q, s) ==
    LET actions == PossibleActions(s)
        Q(i) == IF <<s, actions[i]>> \in DOMAIN q THEN q[<<s, actions[i]>>] ELSE Rat(0)
        best == CHOOSE i \in 1..Len(actions) : \A j \in 1..Len(actions) : ~RatLess(Q(i), Q(j))
    IN IF actions = << >> THEN Rat(0) ELSE Q(best)

\* C21: an update for the transition (s, a, s', r) sets Q(s, a) to
\* (1 - alpha) * Q_old(s, a) + alpha * (r + discount * max_a' Q_old(s', a')),
\* unseen pairs counting as 0 and the max being 0 when s' has no legal
\* actions, and leaves every other entry of the table as it was.
C21_UpdateRule ==
    [][(agentKind = "ql" /\ ql'.nUpdates = ql.nUpdates + 1) =>
          LET s == ql'.last[1]
              a == ql'.last[2]
              nextState == ql'.last[3]
              old == IF <<s, a>> \in DOMAIN ql.qValues THEN ql.qValues[<<s, a>>] ELSE Rat(0)
              target == RatAdd(Rat(mdp.reward[nextState]),
                               RatMul(mdp.discount, RefMaxQ(ql.qValues, nextState)))
          IN /\ DOMAIN ql'.qValues = DOMAIN ql.qValues \cup {<<s, a>>}
             /\ RatEq(ql'.qValues[<<s, a>>],
                      RatAdd(RatMul(RatSub(Rat(1), Alpha), old), RatMul(Alpha, target)))
             /\ \A p \in DOMAIN ql.qValues :
                    p # <<s, a>> => ql'.qValues[p] = ql.qValues[p]]_vars

\* C21 witness: the same pair of state 1 was updated twice with a rewarded
\* transition back to state 1, so the second update started from a learned
\* Q(s, a) and took the max over a learned and an unseen pair.
C21_Witness ==
    /\ agentKind = "ql"
    /\ ql.nUpdates = 2
    /\ ql.last[1] = 1
    /\ ql.last[3] = 1
    /\ mdp.reward[1] > 0
    /\ DOMAIN ql.qValues = {<<1, ql.last[2]>>}
    /\ RatLess(RatMul(Alpha, Rat(mdp.reward[1])), ql.qValues[<<1, ql.last[2]>>])

\* The linear Q-value of a weight table: the sum over the features of
\* (s, a) of feature value times weight, unseen weights counting as 0.
RefWeight(w, f) == IF f \in DOMAIN w THEN w[f] ELSE Rat(0)
RefLinearQ(ex, w, s, a) ==
    RatSum([i \in 1..Len(ex[<<s, a>>]) |->
                RatMul(Rat(ex[<<s, a>>][i].value), RefWeight(w, ex[<<s, a>>][i].feature))])
RefMaxLinearQ(ex, w, s) ==
    LET actions == PossibleActions(s)
        best == CHOOSE i \in 1..Len(actions) :
                    \A j \in 1..Len(actions) :
                        ~RatLess(RefLinearQ(ex, w, s, actions[i]), RefLinearQ(ex, w, s, actions[j]))
    IN IF actions = << >> THEN Rat(0) ELSE RefLinearQ(ex, w, s, actions[best])

\* C22: an update changes the weight of every feature f of (s, a) by
\* alpha * (target - Q(s, a)) * feature[f], with target = r + discount *
\* max_a' Q(s', a') and both computed from the weights before the update;
\* unseen weights count as 0 and the weights of other features stay.
C22_WeightUpdate ==
    [][(agentKind = "aq" /\ aq'.nUpdates = aq.nUpdates + 1) =>
          LET t == aq'.last
              items == aq.extractor[<<t.state, t.action>>]
              target == RatAdd(Rat(t.reward),
                               RatMul(mdp.discount,
                                      RefMaxLinearQ(aq.extractor, aq.weights, t.nextState)))
              delta == RatMul(Alpha,
                              RatSub(target,
                                     RefLinearQ(aq.extractor, aq.weights, t.state, t.action)))
          IN \A f \in Features :
                 IF \E i \in 1..Len(items) : items[i].feature = f
                 THEN LET i == CHOOSE k \in 1..Len(items) : items[k].feature = f
                      IN /\ f \in DOMAIN aq'.weights
                         /\ RatEq(aq'.weights[f],
                                  RatAdd(RefWeight(aq.weights, f),
                                         RatMul(delta, Rat(items[i].value))))
                 ELSE /\ f \in DOMAIN aq'.weights <=> f \in DOMAIN aq.weights
                      /\ f \in DOMAIN aq.weights => aq'.weights[f] = aq.weights[f]]_vars

\* C22 witness: the second update was for a pair with two features and
\* changed both weights, one of them learned before, and its next state is
\* the state of the pair itself, so that target and Q(s, a) both depend on
\* the weights being changed.
C22_Witness ==
    /\ agentKind = "aq"
    /\ aq.nUpdates = 2
    /\ Len(aq.extractor[<<aq.last.state, aq.last.action>>]) = 2
    /\ aq.last.nextState = aq.last.state
    /\ aq.before # << >>
    /\ \A f \in Features : ~RatEq(RefWeight(aq.weights, f), RefWeight(aq.before, f))
    /\ \E f \in Features : RatLess(RefWeight(aq.weights, f), RefWeight(aq.before, f))

(***************************************************************************)
(* Specifications                                                          *)
(***************************************************************************)

\* A part that is not exercised stays in one fixed state.
IdleGraph == [e \in 1..Len(EdgeFrom) |-> 0]
IdleGame ==
    [n |-> 2, depth |-> 0, branch |-> [l \in 1..BranchLevels |-> 1],
     eval |-> <<0>>, term |-> 0]
InitialOp == [op |-> "init", target |-> 1, cell |-> 0, present |-> FALSE]
IdleCorners == CornersStartingState(Corners[1])
IdleMdp ==
    [trans |-> [p \in StateActionPairs |-> << [next |-> TerminalState, prob |-> Rat(1)] >>],
     reward |-> [s \in MdpStateSet |-> 0],
     discount |-> Rat(1)]
QL_initial == [qValues |-> << >>, nUpdates |-> 0, last |-> <<0, 0, 0>>]
IdleExtractor == [p \in StateActionPairs |-> << >>]
AQ_initial ==
    [extractor |-> IdleExtractor, weights |-> << >>, before |-> << >>, nUpdates |-> 0,
     last |-> [state |-> 0, action |-> 0, nextState |-> 0, reward |-> 0]]
IdleFood == [position |-> Corners[1], food |-> {}]
IdleDots ==
    [init |-> IdleFood, cur |-> IdleFood, actions |-> << >>, rounds |-> 0, pc |-> "done"]

\* The game state under every sequence of its operations.
Init ==
    /\ states = InitWorld.states
    /\ foods = InitWorld.foods
    /\ caps = InitWorld.caps
    /\ agents = InitWorld.agents
    /\ parent = <<0>>
    /\ lastOp = InitialOp
    /\ nops = 0
    /\ graph = IdleGraph
    /\ startIsGoal = FALSE
    /\ mode = "bfs"
    /\ heur = ZeroHeuristic
    /\ search = InitialSearch
    /\ game = IdleGame
    /\ mmResult = Pending
    /\ abResult = Pending
    /\ exResult = ExPending
    /\ walls = {}
    /\ cstate = IdleCorners
    /\ fstate = IdleFood
    /\ fprev = IdleFood
    /\ cds = IdleDots
    /\ hCorners = cornersHeuristic(IdleCorners)
    /\ hFood = foodHeuristic({}, IdleFood)
    /\ mdp = IdleMdp
    /\ agentKind = "vi"
    /\ vi = VI_initial(0)
    /\ ql = QL_initial
    /\ aq = AQ_initial

Spec == Init /\ [][GsNext]_vars

\* The game, with callers that change what getFood() and getCapsules() return.
SpecAccess == Init /\ [][AccessNext]_vars

\* One run of genericSearch on every problem, frontier and heuristic.
InitSearch ==
    /\ states = InitWorld.states
    /\ foods = InitWorld.foods
    /\ caps = InitWorld.caps
    /\ agents = InitWorld.agents
    /\ parent = <<0>>
    /\ lastOp = InitialOp
    /\ nops = 0
    /\ graph \in [1..Len(EdgeFrom) -> 0..MaxCost]
    /\ startIsGoal \in BOOLEAN
    /\ mode \in Modes
    /\ heur \in (IF mode = "astar" THEN Heuristics ELSE {ZeroHeuristic})
    /\ search = InitialSearch
    /\ game = IdleGame
    /\ mmResult = Pending
    /\ abResult = Pending
    /\ exResult = ExPending
    /\ walls = {}
    /\ cstate = IdleCorners
    /\ fstate = IdleFood
    /\ fprev = IdleFood
    /\ cds = IdleDots
    /\ hCorners = cornersHeuristic(IdleCorners)
    /\ hFood = foodHeuristic({}, IdleFood)
    /\ mdp = IdleMdp
    /\ agentKind = "vi"
    /\ vi = VI_initial(0)
    /\ ql = QL_initial
    /\ aq = AQ_initial

SpecSearch == InitSearch /\ [][SearchNext]_vars

\* The same runs, with the interpreter never stopping in the middle of a call.
SpecSearchFair == InitSearch /\ [][SearchNext]_vars /\ WF_vars(SearchNext)

\* MinimaxAgent.getAction and AlphaBetaAgent.getAction on every game tree.
InitTree ==
    /\ states = InitWorld.states
    /\ foods = InitWorld.foods
    /\ caps = InitWorld.caps
    /\ agents = InitWorld.agents
    /\ parent = <<0>>
    /\ lastOp = InitialOp
    /\ nops = 0
    /\ graph = IdleGraph
    /\ startIsGoal = FALSE
    /\ mode = "bfs"
    /\ heur = ZeroHeuristic
    /\ search = InitialSearch
    /\ \E n \in 2..MaxAgents, d \in 0..MaxDepth :
           \E b \in BranchVectors(n, d) :
               \E ev \in [1..SeqProduct(b) -> 0..MaxVal], t \in 0..2 :
                   game = [n |-> n, depth |-> d, branch |-> b, eval |-> ev, term |-> t]
    /\ mmResult = Pending
    /\ abResult = Pending
    /\ exResult = ExPending
    /\ walls = {}
    /\ cstate = IdleCorners
    /\ fstate = IdleFood
    /\ fprev = IdleFood
    /\ cds = IdleDots
    /\ hCorners = cornersHeuristic(IdleCorners)
    /\ hFood = foodHeuristic({}, IdleFood)
    /\ mdp = IdleMdp
    /\ agentKind = "vi"
    /\ vi = VI_initial(0)
    /\ ql = QL_initial
    /\ aq = AQ_initial

SpecTree == InitTree /\ [][TreeNext]_vars

\* A CornersProblem walked from every starting position of every layout.
InitCorners ==
    /\ states = InitWorld.states
    /\ foods = InitWorld.foods
    /\ caps = InitWorld.caps
    /\ agents = InitWorld.agents
    /\ parent = <<0>>
    /\ lastOp = InitialOp
    /\ nops = 0
    /\ graph = IdleGraph
    /\ startIsGoal = FALSE
    /\ mode = "bfs"
    /\ heur = ZeroHeuristic
    /\ search = InitialSearch
    /\ game = IdleGame
    /\ mmResult = Pending
    /\ abResult = Pending
    /\ exResult = ExPending
    /\ walls \in WallSets
    /\ \E position \in GridCells \ walls :
           /\ cstate = CornersStartingState(position)
           /\ hCorners = cornersHeuristic(CornersStartingState(position))
    /\ fstate = IdleFood
    /\ fprev = IdleFood
    /\ cds = IdleDots
    /\ hFood = foodHeuristic({}, IdleFood)
    /\ mdp = IdleMdp
    /\ agentKind = "vi"
    /\ vi = VI_initial(0)
    /\ ql = QL_initial
    /\ aq = AQ_initial

SpecCorners == InitCorners /\ [][CornersNext]_vars

\* A food search problem walked from every starting position, with up to
\* MaxFood food cells, on every layout.
InitFood ==
    /\ states = InitWorld.states
    /\ foods = InitWorld.foods
    /\ caps = InitWorld.caps
    /\ agents = InitWorld.agents
    /\ parent = <<0>>
    /\ lastOp = InitialOp
    /\ nops = 0
    /\ graph = IdleGraph
    /\ startIsGoal = FALSE
    /\ mode = "bfs"
    /\ heur = ZeroHeuristic
    /\ search = InitialSearch
    /\ game = IdleGame
    /\ mmResult = Pending
    /\ abResult = Pending
    /\ exResult = ExPending
    /\ walls \in WallSets
    /\ cstate = IdleCorners
    /\ hCorners = cornersHeuristic(IdleCorners)
    /\ \E position \in GridCells \ walls :
           \E food \in SUBSET (GridCells \ (walls \cup {position})) :
               /\ Cardinality(food) <= MaxFood
               /\ fstate = [position |-> position, food |-> food]
               /\ fprev = [position |-> position, food |-> food]
               /\ hFood = foodHeuristic(walls, [position |-> position, food |-> food])
    /\ cds = IdleDots
    /\ mdp = IdleMdp
    /\ agentKind = "vi"
    /\ vi = VI_initial(0)
    /\ ql = QL_initial
    /\ aq = AQ_initial

SpecFood == InitFood /\ [][FoodNext]_vars

\* A value iteration agent or a Q-learning agent on every MDP.
InitMdp ==
    /\ states = InitWorld.states
    /\ foods = InitWorld.foods
    /\ caps = InitWorld.caps
    /\ agents = InitWorld.agents
    /\ parent = <<0>>
    /\ lastOp = InitialOp
    /\ nops = 0
    /\ graph = IdleGraph
    /\ startIsGoal = FALSE
    /\ mode = "bfs"
    /\ heur = ZeroHeuristic
    /\ search = InitialSearch
    /\ game = IdleGame
    /\ mmResult = Pending
    /\ abResult = Pending
    /\ exResult = ExPending
    /\ walls = {}
    /\ cstate = IdleCorners
    /\ fstate = IdleFood
    /\ fprev = IdleFood
    /\ cds = IdleDots
    /\ hCorners = cornersHeuristic(IdleCorners)
    /\ hFood = foodHeuristic({}, IdleFood)
    /\ \E t1 \in TransitionLists(1), t2 \in TransitionLists(1), t3 \in TransitionLists(2) :
           \E r \in [MdpStateSet -> 0..MaxReward], d \in DiscountRates :
               mdp = [trans |-> (<<1, 1>> :> t1) @@ (<<1, 2>> :> t2) @@ (<<2, 1>> :> t3),
                      reward |-> r, discount |-> d]
    /\ agentKind \in {"vi", "ql"}
    /\ \E iters \in 0..MaxIters :
           vi = VI_initial(IF agentKind = "vi" THEN iters ELSE 0)
    /\ ql = QL_initial
    /\ aq = AQ_initial

SpecMdp == InitMdp /\ [][MdpNext]_vars

\* An approximate Q-learning agent with every feature extractor.
InitApprox ==
    /\ states = InitWorld.states
    /\ foods = InitWorld.foods
    /\ caps = InitWorld.caps
    /\ agents = InitWorld.agents
    /\ parent = <<0>>
    /\ lastOp = InitialOp
    /\ nops = 0
    /\ graph = IdleGraph
    /\ startIsGoal = FALSE
    /\ mode = "bfs"
    /\ heur = ZeroHeuristic
    /\ search = InitialSearch
    /\ game = IdleGame
    /\ mmResult = Pending
    /\ abResult = Pending
    /\ exResult = ExPending
    /\ walls = {}
    /\ cstate = IdleCorners
    /\ fstate = IdleFood
    /\ fprev = IdleFood
    /\ cds = IdleDots
    /\ hCorners = cornersHeuristic(IdleCorners)
    /\ hFood = foodHeuristic({}, IdleFood)
    /\ \E d \in DiscountRates : mdp = [IdleMdp EXCEPT !.discount = d]
    /\ agentKind = "aq"
    /\ vi = VI_initial(0)
    /\ ql = QL_initial
    /\ \E ex \in [StateActionPairs -> FeatureDicts] :
           aq = [AQ_initial EXCEPT !.extractor = ex]

SpecApprox == InitApprox /\ [][AQUpdate]_vars

\* uniformCostSearch and aStarSearch on graphs with a wider range of step
\* costs between the states 0, 1 and 2.
InitPQ ==
    /\ states = InitWorld.states
    /\ foods = InitWorld.foods
    /\ caps = InitWorld.caps
    /\ agents = InitWorld.agents
    /\ parent = <<0>>
    /\ lastOp = InitialOp
    /\ nops = 0
    /\ graph \in {g \in [1..Len(EdgeFrom) -> 0..MaxDetourCost] :
                      g[7] = 0 /\ g[5] <= 1 /\ g[6] <= 1}
    /\ startIsGoal = FALSE
    /\ mode \in {"ucs", "astar"}
    /\ heur \in (IF mode = "astar" THEN Heuristics ELSE {ZeroHeuristic})
    /\ search = InitialSearch
    /\ game = IdleGame
    /\ mmResult = Pending
    /\ abResult = Pending
    /\ exResult = ExPending
    /\ walls = {}
    /\ cstate = IdleCorners
    /\ fstate = IdleFood
    /\ fprev = IdleFood
    /\ cds = IdleDots
    /\ hCorners = cornersHeuristic(IdleCorners)
    /\ hFood = foodHeuristic({}, IdleFood)
    /\ mdp = IdleMdp
    /\ agentKind = "vi"
    /\ vi = VI_initial(0)
    /\ ql = QL_initial
    /\ aq = AQ_initial

SpecPQ == InitPQ /\ [][SearchNext]_vars

\* ClosestDotSearchAgent.registerInitialState on every layout with up to
\* MaxDotWalls wall cells, Pacman and up to MaxFood dots on free cells; the
\* interpreter never stops in the middle of the call.
InitDots ==
    /\ states = InitWorld.states
    /\ foods = InitWorld.foods
    /\ caps = InitWorld.caps
    /\ agents = InitWorld.agents
    /\ parent = <<0>>
    /\ lastOp = InitialOp
    /\ nops = 0
    /\ graph = IdleGraph
    /\ startIsGoal = FALSE
    /\ mode = "bfs"
    /\ heur = ZeroHeuristic
    /\ search = InitialSearch
    /\ game = IdleGame
    /\ mmResult = Pending
    /\ abResult = Pending
    /\ exResult = ExPending
    /\ walls \in {w \in SUBSET GridCells : Cardinality(w) <= MaxDotWalls}
    /\ cstate = IdleCorners
    /\ fstate = IdleFood
    /\ fprev = IdleFood
    /\ hCorners = cornersHeuristic(IdleCorners)
    /\ hFood = foodHeuristic({}, IdleFood)
    /\ \E position \in GridCells \ walls :
           \E food \in {f \in SUBSET (GridCells \ (walls \cup {position})) :
                             Cardinality(f) <= MaxFood} :
               cds = [init |-> [position |-> position, food |-> food],
                      cur |-> [position |-> position, food |-> food],
                      actions |-> << >>, rounds |-> 0, pc |-> "loop"]
    /\ mdp = IdleMdp
    /\ agentKind = "vi"
    /\ vi = VI_initial(0)
    /\ ql = QL_initial
    /\ aq = AQ_initial

SpecDots == InitDots /\ [][DotsNext]_vars /\ WF_vars(DotsNext)

====
